---- MODULE Spec2Model ----
(***************************************************************************)
(* TFTP client and server (AmiramCohen/TFTP): the shared transfer engine   *)
(* of src/common/common.c, the client handlers of src/client and the       *)
(* dispatcher and handlers of src/server, as one state machine.            *)
(*                                                                         *)
(* Datagrams and the 516-byte scratch buffer are sequences of bytes; the   *)
(* C index i of a buffer is element i+1 of the sequence (see at).          *)
(* One action is one handler step: from the return of a blocking recvfrom  *)
(* to the next blocking recvfrom (or to the end of the handler).           *)
(***************************************************************************)
EXTENDS Integers, Sequences, FiniteSets, TLC

(***************************************************************************)
(* Program constants (src/common/common.h)                                 *)
(***************************************************************************)
TFTP_PORT == 69
TFTP_MAX_RETRIES == 3
TFTP_NUM_ARGUMENTS == 4
MAX_FILE_NAME == 256
TFTP_TIMEOUT == 5
TFTP_OPCODE_SIZE == 2
TFTP_BLOCK_NUMBER_SIZE == 2
TFTP_DATA_HEADER_SIZE == TFTP_OPCODE_SIZE + TFTP_BLOCK_NUMBER_SIZE
TFTP_MAX_DATA_SIZE == 512
TFTP_MAX_PACKET_SIZE == TFTP_DATA_HEADER_SIZE + TFTP_MAX_DATA_SIZE

TFTP_RRQ == 1
TFTP_WRQ == 2
TFTP_DATA == 3
TFTP_ACK == 4
TFTP_ERROR == 5
TFTP_DRQ == 6

ERROR_UNDEFINED == 0
ERROR_FILE_NOT_FOUND == 1
ERROR_ACCESS_VIOLATION == 2
ERROR_DISK_FULL == 3
ERROR_ILLEGAL_OPERATION == 4
ERROR_UNKNOWN_TID == 5
ERROR_FILE_EXISTS == 6
ERROR_NO_SUCH_USER == 7

EXIT_SUCCESS == 0
EXIT_FAILURE == 1

\* "octet"
MODE == <<111, 99, 116, 101, 116>>

(***************************************************************************)
(* Bounds of the model                                                     *)
(***************************************************************************)
\* files have 0 .. MaxBlocks full blocks, plus possibly one more byte
MaxBlocks == 2
\* the same when faults may happen
MaxFaultyBlocks == 1
\* client process invocations in one behaviour on a faultless channel
MaxRuns == 2
\* client process invocations in one behaviour when faults may happen
MaxFaultyRuns == 1
\* faults in one behaviour: datagrams lost, datagrams duplicated, datagrams
\* sent by a third host, fwrite, remove, fopen and access calls that fail
MaxFaults == 1
\* stale datagrams of a third host in one behaviour of SpecStale
MaxStale == 3

(***************************************************************************)
(* Files and byte strings                                                  *)
(***************************************************************************)
Min(a, b) == IF a < b THEN a ELSE b

\* LET y == v IN F(y), with v evaluated once however often F uses y
Let(v, F(_)) == F(v)

\* the one file name the runs use: "f"
FileName == <<102>>

NoFile == [exists |-> FALSE, data |-> <<>>]
File(d) == [exists |-> TRUE, data |-> d]

\* the byte string of length n whose byte at offset i is (seed + i) mod 251;
\* 251 is prime, so consecutive 512-byte blocks differ
Bytes(seed, n) == [i \in 1..n |-> (seed + i - 1) % 251]

FileSizes(blocks) == { k * TFTP_MAX_DATA_SIZE + d : k \in 0..blocks, d \in {0, 1} }

\* C indexing of a buffer
at(buffer, i) == buffer[i + 1]

\* the bytes of the NUL-terminated string that starts at C index i
RECURSIVE cstr(_, _)
cstr(buffer, i) ==
    IF i >= Len(buffer) \/ at(buffer, i) = 0 THEN <<>>
    ELSE <<at(buffer, i)>> \o cstr(buffer, i + 1)

strlen(buffer, i) == Len(cstr(buffer, i))

tolower(c) == IF c >= 65 /\ c <= 90 THEN c + 32 ELSE c

\* strcasecmp(a, b) == 0
strcaseeq(a, b) ==
    /\ Len(a) = Len(b)
    /\ \A i \in 1..Len(a) : tolower(a[i]) = tolower(b[i])

\* memcpy/snprintf/recvfrom into a buffer: bytes written at C index i,
\* everything else of the buffer kept
poke(buffer, i, bytes) ==
    SubSeq(buffer, 1, i) \o bytes \o SubSeq(buffer, i + Len(bytes) + 1, Len(buffer))

ZeroBuffer == [k \in 1..TFTP_MAX_PACKET_SIZE |-> 0]

(***************************************************************************)
(* Packet codec and engine (src/common/common.c)                           *)
(*                                                                         *)
(* The engine operators work on a context x: the fields of the endpoint    *)
(* (buffer, block_number, retry, success, bytes_read, pos, addr ...)       *)
(* together with                                                           *)
(*   x.file  the local file the transfer reads or writes,                  *)
(*   x.out   the datagrams handed to sendto so far in this step,           *)
(*   x.ret   the value the last engine call returned,                      *)
(*   x.sockfd      the descriptor of the socket, open while the process    *)
(*                 runs, -1 once closed,                                   *)
(*   x.released    the calls of close, fclose and free made in this step.  *)
(***************************************************************************)

tftp_error_message(error_code) ==
    CASE error_code = ERROR_FILE_NOT_FOUND ->
            <<70, 105, 108, 101, 32, 110, 111, 116, 32, 102, 111, 117, 110, 100>>
      [] error_code = ERROR_ACCESS_VIOLATION ->
            <<65, 99, 99, 101, 115, 115, 32, 118, 105, 111, 108, 97, 116, 105, 111, 110>>
      [] error_code = ERROR_DISK_FULL ->
            <<68, 105, 115, 107, 32, 102, 117, 108, 108, 32, 111, 114, 32, 97, 108,
              108, 111, 99, 97, 116, 105, 111, 110, 32, 101, 120, 99, 101, 101, 100,
              101, 100>>
      [] error_code = ERROR_ILLEGAL_OPERATION ->
            <<73, 108, 108, 101, 103, 97, 108, 32, 84, 70, 84, 80, 32, 111, 112, 101,
              114, 97, 116, 105, 111, 110>>
      [] error_code = ERROR_UNKNOWN_TID ->
            <<85, 110, 107, 110, 111, 119, 110, 32, 116, 114, 97, 110, 115, 102, 101,
              114, 32, 73, 68>>
      [] error_code = ERROR_FILE_EXISTS ->
            <<70, 105, 108, 101, 32, 97, 108, 114, 101, 97, 100, 121, 32, 101, 120,
              105, 115, 116, 115>>
      [] error_code = ERROR_NO_SUCH_USER ->
            <<78, 111, 32, 115, 117, 99, 104, 32, 117, 115, 101, 114>>
      [] OTHER ->
            <<85, 110, 100, 101, 102, 105, 110, 101, 100, 32, 101, 114, 114, 111, 114>>

\* custom messages of the callers
MsgOpenForWriting ==
    <<69, 114, 114, 111, 114, 32, 111, 112, 101, 110, 105, 110, 103, 32, 102, 105,
      108, 101, 32, 102, 111, 114, 32, 119, 114, 105, 116, 105, 110, 103>>
MsgUnsupportedMode ==
    <<85, 110, 115, 117, 112, 112, 111, 114, 116, 101, 100, 32, 109, 111, 100, 101,
      58, 32, 79, 110, 108, 121, 32, 39, 111, 99, 116, 101, 116, 39, 32, 105, 115,
      32, 97, 108, 108, 111, 119, 101, 100>>
MsgInvalidRequest ==
    <<73, 110, 118, 97, 108, 105, 100, 32, 114, 101, 113, 117, 101, 115, 116, 32,
      114, 101, 99, 101, 105, 118, 101, 100>>
MsgFilenameMissing ==
    <<70, 105, 108, 101, 110, 97, 109, 101, 32, 109, 105, 115, 115, 105, 110, 103>>
\* strerror(EACCES)
MsgPermissionDenied ==
    <<80, 101, 114, 109, 105, 115, 115, 105, 111, 110, 32, 100, 101, 110, 105, 101,
      100>>

\* send_error_packet with a socket: the packet is built in the scratch
\* buffer and sent; custom_message = <<>> stands for NULL
send_error_packet(x, error_code, custom_message) ==
    Let(IF custom_message /= <<>>
        THEN tftp_error_message(error_code) \o <<32, 45, 32>> \o custom_message
        ELSE tftp_error_message(error_code),
        LAMBDA text :
    Let(<<0, TFTP_ERROR, (error_code \div 256) % 256, error_code % 256>>
            \o SubSeq(text, 1, Min(Len(text),
                    TFTP_MAX_PACKET_SIZE - TFTP_DATA_HEADER_SIZE - 1))
            \o <<0>>,
        LAMBDA pkt :
    [x EXCEPT !.buffer = poke(@, 0, pkt), !.out = Append(@, pkt)]))

\* send_data_packet: the header is written over the first four bytes of the
\* scratch buffer, and header plus bytes_read bytes of the buffer are sent
send_data_packet(x, bytes_read, block_number) ==
    Let(poke(x.buffer, 0,
             <<0, TFTP_DATA, (block_number \div 256) % 256, block_number % 256>>),
        LAMBDA b :
    [x EXCEPT !.buffer = b,
              !.out = Append(@, SubSeq(b, 1, bytes_read + TFTP_DATA_HEADER_SIZE))])

\* send_ack: the ACK is written over the first four bytes of the scratch buffer
send_ack(x, block_number) ==
    Let(poke(x.buffer, 0,
             <<0, TFTP_ACK, (block_number \div 256) % 256, block_number % 256>>),
        LAMBDA b :
    [x EXCEPT !.buffer = b,
              !.out = Append(@, SubSeq(b, 1, TFTP_DATA_HEADER_SIZE))])

\* check_ack: only the two block bytes are compared, against an int
check_ack(buffer, block_number) ==
    /\ at(buffer, 2) = block_number \div 256
    /\ at(buffer, 3) = block_number % 256

\* what recvfrom returns for a datagram: the whole datagram is taken as
\* its length
recvfrom_len_whole(dgram) == Len(dgram.data)

\* what recvfrom returns for a datagram: at most the size it was given, the
\* rest of a longer datagram is discarded
recvfrom_len(dgram) == Min(Len(dgram.data), TFTP_MAX_PACKET_SIZE)

\* recvfrom: len < 0 is a timeout (nothing written); otherwise the first
\* len bytes of the datagram overwrite the first len bytes of the buffer,
\* and the peer address is stored
recvfrom(x, dgram, len) ==
    IF len < 0 THEN x
    ELSE [x EXCEPT !.buffer = poke(@, 0, SubSeq(dgram.data, 1, len)),
                   !.addr = dgram.src]

\* get_response, after recvfrom returned len
get_response(buffer, len) ==
    IF len < 0 THEN -1
    ELSE CASE at(buffer, 1) = TFTP_ACK -> 1
           [] at(buffer, 1) = TFTP_DATA -> len
           [] at(buffer, 1) = TFTP_ERROR -> -1
           [] OTHER -> -1

\* write_to_file: errno = 0 when fwrite succeeds. On failure the call
\* send_error_packet(NULL, ...) returns at once, so nothing is sent.
write_to_file(x, len, errno) ==
    IF len < 0 THEN [x EXCEPT !.ret = FALSE]
    ELSE IF errno /= 0 THEN [x EXCEPT !.ret = FALSE]
    ELSE [x EXCEPT !.ret = TRUE,
                   !.file = IF @.exists
                            THEN File(@.data \o SubSeq(x.buffer,
                                     TFTP_DATA_HEADER_SIZE + 1,
                                     TFTP_DATA_HEADER_SIZE + len))
                            ELSE @]

\* validate_and_retry retransmitting under the next block number
validate_and_retry_resend_next(x, bytes_read, is_upload) ==
    IF ~check_ack(x.buffer, x.block_number)
    THEN Let([x EXCEPT !.success = FALSE, !.retry = @ + 1], LAMBDA y :
             IF y.retry >= TFTP_MAX_RETRIES
             THEN [y EXCEPT !.ret = FALSE]
             ELSE IF is_upload
             THEN [send_data_packet([y EXCEPT !.pos = @ - bytes_read],
                                    bytes_read, y.block_number + 1)
                        EXCEPT !.ret = TRUE]
             ELSE [send_ack(y, y.block_number) EXCEPT !.ret = TRUE])
    ELSE [(IF ~is_upload THEN send_ack(x, x.block_number) ELSE x)
                EXCEPT !.retry = 0, !.block_number = @ + 1,
                       !.success = TRUE, !.ret = TRUE]

\* validate_and_retry giving up one mismatch later
validate_and_retry_one_more(x, bytes_read, is_upload) ==
    IF ~check_ack(x.buffer, x.block_number)
    THEN Let([x EXCEPT !.success = FALSE, !.retry = @ + 1], LAMBDA y :
             IF y.retry > TFTP_MAX_RETRIES
             THEN [y EXCEPT !.ret = FALSE]
             ELSE IF is_upload
             THEN [send_data_packet([y EXCEPT !.pos = @ - bytes_read],
                                    bytes_read, y.block_number)
                        EXCEPT !.ret = TRUE]
             ELSE [send_ack(y, y.block_number) EXCEPT !.ret = TRUE])
    ELSE [(IF ~is_upload THEN send_ack(x, x.block_number) ELSE x)
                EXCEPT !.retry = 0, !.block_number = @ + 1,
                       !.success = TRUE, !.ret = TRUE]

validate_and_retry(x, bytes_read, is_upload) ==
    IF ~check_ack(x.buffer, x.block_number)
    THEN Let([x EXCEPT !.success = FALSE, !.retry = @ + 1], LAMBDA y :
             IF y.retry >= TFTP_MAX_RETRIES
             THEN [y EXCEPT !.ret = FALSE]
             ELSE IF is_upload
             THEN [send_data_packet([y EXCEPT !.pos = @ - bytes_read],
                                    bytes_read, y.block_number)
                        EXCEPT !.ret = TRUE]
             ELSE [send_ack(y, y.block_number) EXCEPT !.ret = TRUE])
    ELSE [(IF ~is_upload THEN send_ack(x, x.block_number) ELSE x)
                EXCEPT !.retry = 0, !.block_number = @ + 1,
                       !.success = TRUE, !.ret = TRUE]

\* process_transfer_send up to the blocking get_response: fread and send.
\* ret = FALSE: the call returned false before receiving.
process_transfer_send_begin(x) ==
    Let(Min(TFTP_MAX_DATA_SIZE, Len(x.file.data) - x.pos), LAMBDA n :
    Let([x EXCEPT !.bytes_read = n,
                  !.buffer = poke(@, TFTP_DATA_HEADER_SIZE,
                                  SubSeq(x.file.data, x.pos + 1, x.pos + n)),
                  !.pos = @ + n],
        LAMBDA y :
    IF n <= 0 THEN [y EXCEPT !.ret = FALSE]
    ELSE [send_data_packet(y, n, y.block_number) EXCEPT !.ret = TRUE]))

\* process_transfer_send_end with the end-of-transfer test off by one: a
\* full block already counts as the last one
process_transfer_send_end_full_is_last(x, dgram, len) ==
    Let(recvfrom(x, dgram, len), LAMBDA y :
    IF get_response(y.buffer, len) < 0 THEN [y EXCEPT !.ret = FALSE]
    ELSE Let(validate_and_retry(y, y.bytes_read, TRUE), LAMBDA z :
         IF ~z.ret THEN z
         ELSE IF z.bytes_read <= TFTP_MAX_DATA_SIZE /\ z.success
         THEN [z EXCEPT !.ret = FALSE]
         ELSE [z EXCEPT !.ret = TRUE]))

\* process_transfer_send from the return of recvfrom to its own return
process_transfer_send_end(x, dgram, len) ==
    Let(recvfrom(x, dgram, len), LAMBDA y :
    IF get_response(y.buffer, len) < 0 THEN [y EXCEPT !.ret = FALSE]
    ELSE Let(validate_and_retry(y, y.bytes_read, TRUE), LAMBDA z :
         IF ~z.ret THEN z
         ELSE IF z.bytes_read < TFTP_MAX_DATA_SIZE /\ z.success
         THEN [z EXCEPT !.ret = FALSE]
         ELSE [z EXCEPT !.ret = TRUE]))

\* process_transfer_receive from the return of recvfrom to its own return
process_transfer_receive(x, dgram, len, errno) ==
    Let(recvfrom(x, dgram, len), LAMBDA y :
    Let(get_response(y.buffer, len), LAMBDA n :
    IF n < 0 THEN [y EXCEPT !.ret = FALSE]
    ELSE Let(validate_and_retry(y, 0, FALSE), LAMBDA z :
         IF ~z.ret THEN z
         ELSE Let(write_to_file(z, n - TFTP_DATA_HEADER_SIZE, errno), LAMBDA w :
              IF ~w.ret THEN w
              ELSE IF n < TFTP_MAX_PACKET_SIZE /\ w.success
              THEN [w EXCEPT !.ret = FALSE]
              ELSE [w EXCEPT !.ret = TRUE]))))

\* the while loop around process_transfer_send: the call that was blocked
\* returns, and while calls return true the next one starts; the loop stops
\* at the next blocking receive (ret = TRUE) or when a call returned false
send_loop(x, dgram, len) ==
    Let(process_transfer_send_end(x, dgram, len), LAMBDA y :
    IF ~y.ret THEN y ELSE process_transfer_send_begin(y))

(***************************************************************************)
(* State                                                                   *)
(***************************************************************************)
VARIABLES
    cli,        \* the client process: TFTPRequest, TFTPSocket and the locals of its handler
    srv,        \* the server process: the same, plus the socket's receive timeout
    src,        \* the file the client uploads (argv[FILE_PATH], outside the working directory)
    limit,      \* what this behaviour may contain: client runs, blocks per file
    cfile,      \* the file named FileName in the client's working directory
    sfs,        \* the server's working directory: file name -> file
    toS,        \* datagrams queued at the server's socket, oldest first
    toC,        \* datagrams queued at the client's socket, oldest first
    runs,       \* client processes started so far; the current one uses port `runs`
    hist,       \* per client run: what was asked, in what situation, and how it ended
    sres,       \* the handler the server ran last and how its transfer ended
    log,        \* datagrams sent and received and timeouts since the current run started
    lost,       \* datagrams lost so far
    dups,       \* datagrams duplicated so far
    injected,   \* datagrams sent by a third host so far
    wfails      \* fwrite, remove, fopen, access and setsockopt failures so far

vars == <<cli, srv, src, limit, cfile, sfs, toS, toC, runs, hist, sres, log,
          lost, dups, injected, wfails>>

EndpointFields ==
    {"pc", "opcode", "filename", "filepath", "buffer", "block_number", "retry",
     "success", "bytes_read", "pos", "addr", "rcvtimeo"}

\* an endpoint with the local file it works on, ready for an engine call
Ctx(e, f) ==
    e @@ [file |-> f, out |-> <<>>, ret |-> TRUE, handled |-> FALSE,
          sockfd |-> 3, released |-> <<>>]
Strip(x) == [k \in EndpointFields |-> x[k]]

\* the address of a third host
OtherHost == 0

Tag(out, from) == [i \in 1..Len(out) |-> [src |-> from, data |-> out[i]]]
Sent(out, who) == [i \in 1..Len(out) |-> [ev |-> "snd", by |-> who, data |-> out[i]]]
Rcvd(dgram, len, who) ==
    IF len < 0 THEN <<[ev |-> "tmo", by |-> who, data |-> <<>>]>>
    ELSE <<[ev |-> "rcv", by |-> who, data |-> dgram.data]>>

NoDgram == [src |-> OtherHost, data |-> <<>>]

fs_get(fs, name) == IF name \in DOMAIN fs THEN fs[name] ELSE NoFile
fs_put(fs, name, f) == [n \in (DOMAIN fs) \cup {name} |-> IF n = name THEN f ELSE fs[n]]

\* the fields of a datagram
Opcode(d) == IF Len(d) >= 2 THEN d[1] * 256 + d[2] ELSE -1
Block(d) == IF Len(d) >= 4 THEN d[3] * 256 + d[4] ELSE -1
Payload(d) == SubSeq(d, TFTP_DATA_HEADER_SIZE + 1, Len(d))

(***************************************************************************)
(* Client (src/client)                                                     *)
(***************************************************************************)
ClientIdle ==
    [pc |-> "idle", opcode |-> 0, filename |-> <<>>, filepath |-> "NULL",
     buffer |-> ZeroBuffer, block_number |-> 0, retry |-> 0, success |-> FALSE,
     bytes_read |-> 0, pos |-> 0, addr |-> TFTP_PORT, rcvtimeo |-> 0]

\* cleanup that releases what it holds but leaves sockfd and the pointers
\* as they are
cleanup_keeps_pointers(x) ==
    [x EXCEPT !.released = @ \o (IF x.sockfd >= 0 THEN <<"close">> ELSE <<>>)
                             \o (IF x.filepath /= "NULL" THEN <<"fclose">> ELSE <<>>)
                             \o (IF x.filename /= <<>> THEN <<"free">> ELSE <<>>)]

\* cleanup: socket closed, file closed, filename freed, each if still held
cleanup(x) ==
    [x EXCEPT !.released = @ \o (IF x.sockfd >= 0 THEN <<"close">> ELSE <<>>)
                             \o (IF x.filepath /= "NULL" THEN <<"fclose">> ELSE <<>>)
                             \o (IF x.filename /= <<>> THEN <<"free">> ELSE <<>>),
              !.sockfd = -1, !.filepath = "NULL", !.filename = <<>>]

\* send_request: [0, opcode, filename, 0, "octet", 0]
send_request(x) ==
    Let(<<0, x.opcode>> \o x.filename \o <<0>> \o MODE \o <<0>>, LAMBDA pkt :
    [x EXCEPT !.buffer = poke(@, 0, pkt), !.out = Append(@, pkt)])

\* A command line: argc, argv[OPERATION], the length of argv[FILE_PATH]
\* and whether the file it names may be read.  The base name of the path is
\* FileName.
Operation(op) ==
    CASE op = TFTP_WRQ -> "upload"
      [] op = TFTP_RRQ -> "download"
      [] OTHER -> "delete"
CommandLine(op) ==
    [argc |-> TFTP_NUM_ARGUMENTS, operation |-> Operation(op),
     pathlen |-> Len(FileName), readable |-> TRUE]

validate_argument_count(argc) == argc = TFTP_NUM_ARGUMENTS

\* validate_operation: the opcode, 0 when the operation is none of the three
client_validate_operation(operation) ==
    CASE operation = "upload" -> TFTP_WRQ
      [] operation = "download" -> TFTP_RRQ
      [] operation = "delete" -> TFTP_DRQ
      [] OTHER -> 0

\* validate_filename without the length test
client_validate_filename_any(pathlen) == TRUE

client_validate_filename(pathlen) == pathlen <= MAX_FILE_NAME

client_validate_file_access(path, readable) == path.exists /\ readable

\* validate_arguments; cwd is the file FileName of the directory the
\* process is started in, path the file argv[FILE_PATH] names
validate_arguments(cmd, cwd, path) ==
    /\ validate_argument_count(cmd.argc)
    /\ client_validate_operation(cmd.operation) /= 0
    /\ client_validate_filename(cmd.pathlen)
    /\ client_validate_operation(cmd.operation) = TFTP_WRQ
            => client_validate_file_access(path, cmd.readable)
    /\ client_validate_operation(cmd.operation) = TFTP_RRQ => ~cwd.exists

\* the handlers up to their first blocking receive
client_download_request_begin(x) ==
    [send_request(x) EXCEPT !.file = File(<<>>), !.filepath = "wb",
                            !.block_number = 1, !.retry = -1, !.success = FALSE,
                            !.pc = "recv"]

client_upload_request_begin(x) ==
    [send_request(x) EXCEPT !.success = FALSE, !.pc = "hs"]

client_delete_request_begin(x) ==
    [send_request(x) EXCEPT !.pc = "hs"]

\* upload_request with a handshake that sends the request again when its
\* receive times out
client_upload_request_handshake_again(x, dgram, len) ==
    Let(recvfrom(x, dgram, len), LAMBDA y :
    IF len < 0 THEN send_request(y)
    ELSE IF get_response(y.buffer, len) < 0
    THEN [cleanup(y) EXCEPT !.success = FALSE, !.pc = "idle"]
    ELSE Let(process_transfer_send_begin([y EXCEPT !.block_number = 1, !.retry = 0]),
             LAMBDA z :
         IF z.ret THEN [z EXCEPT !.pc = "send"]
         ELSE [cleanup(z) EXCEPT !.pc = "idle"]))

\* upload_request from its handshake get_response on: ret is TRUE while the
\* handler is blocked in a receive, pc = "idle" once it returned
client_upload_request_handshake(x, dgram, len) ==
    Let(recvfrom(x, dgram, len), LAMBDA y :
    IF get_response(y.buffer, len) < 0
    THEN [cleanup(y) EXCEPT !.success = FALSE, !.pc = "idle"]
    ELSE Let(process_transfer_send_begin([y EXCEPT !.block_number = 1, !.retry = 0]),
             LAMBDA z :
         IF z.ret THEN [z EXCEPT !.pc = "send"]
         ELSE [cleanup(z) EXCEPT !.pc = "idle"]))

client_upload_request_loop(x, dgram, len) ==
    Let(send_loop(x, dgram, len), LAMBDA y :
    IF y.ret THEN y ELSE [cleanup(y) EXCEPT !.pc = "idle"])

client_download_request_loop(x, dgram, len, errno) ==
    Let(process_transfer_receive(x, dgram, len, errno), LAMBDA y :
    IF y.ret THEN y
    ELSE IF ~y.success \/ at(y.buffer, 1) = TFTP_ERROR
    THEN [cleanup([y EXCEPT !.file = NoFile]) EXCEPT !.pc = "idle"]
    ELSE [cleanup(y) EXCEPT !.pc = "idle"])

client_delete_request_handshake(x, dgram, len) ==
    Let(recvfrom(x, dgram, len), LAMBDA y :
    IF get_response(y.buffer, len) < 0
    THEN [cleanup(y) EXCEPT !.success = FALSE, !.pc = "idle"]
    ELSE [cleanup(y) EXCEPT !.success = TRUE, !.pc = "idle"])

\* main: the exit status once prog has returned x.success
main_exit(x) == IF x.success THEN EXIT_SUCCESS ELSE EXIT_FAILURE

\* main once prog has returned x.success: cleanup is called again when prog
\* returned true
main_cleanup(x) == IF x.success THEN cleanup(x) ELSE x

(***************************************************************************)
(* Server (src/server)                                                     *)
(***************************************************************************)
\* init_request without the call of cleanup_request
init_request_no_cleanup(x) ==
    [x EXCEPT !.buffer = ZeroBuffer, !.opcode = 0]

\* init_request: cleanup_request, the buffer zeroed, opcode 0; the server
\* then blocks in the dispatcher's recvfrom
init_request(x) ==
    [x EXCEPT !.filename = <<>>, !.filepath = "NULL",
              !.buffer = ZeroBuffer, !.opcode = 0]

ServerWaiting ==
    [pc |-> "wait", opcode |-> 0, filename |-> <<>>, filepath |-> "NULL",
     buffer |-> ZeroBuffer, block_number |-> 0, retry |-> 0, success |-> FALSE,
     bytes_read |-> 0, pos |-> 0, addr |-> TFTP_PORT, rcvtimeo |-> 0]

validate_request_count(x, len) ==
    IF len < TFTP_DATA_HEADER_SIZE
    THEN [send_error_packet(x, ERROR_UNDEFINED, MsgInvalidRequest) EXCEPT !.ret = FALSE]
    ELSE [x EXCEPT !.ret = TRUE]

\* validate_mode comparing only as many bytes as the request's mode has
validate_mode_prefix(x) ==
    Let(cstr(x.buffer, TFTP_OPCODE_SIZE + strlen(x.buffer, TFTP_OPCODE_SIZE) + 1),
        LAMBDA mode :
    IF ~strcaseeq(mode, SubSeq(MODE, 1, Min(Len(mode), Len(MODE))))
    THEN [send_error_packet(x, ERROR_UNDEFINED, MsgUnsupportedMode) EXCEPT !.ret = FALSE]
    ELSE [x EXCEPT !.ret = TRUE])

validate_mode(x) ==
    IF ~strcaseeq(cstr(x.buffer, TFTP_OPCODE_SIZE + strlen(x.buffer, TFTP_OPCODE_SIZE) + 1),
                  MODE)
    THEN [send_error_packet(x, ERROR_UNDEFINED, MsgUnsupportedMode) EXCEPT !.ret = FALSE]
    ELSE [x EXCEPT !.ret = TRUE]

server_validate_operation(x) ==
    Let(at(x.buffer, 0) * 256 + at(x.buffer, 1), LAMBDA opcode :
    IF opcode /= TFTP_RRQ /\ opcode /= TFTP_WRQ /\ opcode /= TFTP_DRQ
    THEN [send_error_packet(x, ERROR_ILLEGAL_OPERATION, <<>>) EXCEPT !.ret = FALSE]
    ELSE [x EXCEPT !.opcode = opcode, !.ret = TRUE])

server_validate_filename(x) ==
    Let(cstr(x.buffer, TFTP_OPCODE_SIZE), LAMBDA filename :
    IF Len(filename) = 0
    THEN [send_error_packet(x, ERROR_UNDEFINED, MsgFilenameMissing) EXCEPT !.ret = FALSE]
    ELSE [x EXCEPT !.filename = filename, !.ret = TRUE])

\* validate_file_access without the test for read permission
server_validate_file_access_any(x, errno) ==
    IF ~x.file.exists
    THEN [send_error_packet(x, ERROR_FILE_NOT_FOUND, <<>>) EXCEPT !.ret = FALSE]
    ELSE [x EXCEPT !.filepath = "rb", !.pos = 0, !.ret = TRUE]

\* validate_file_access; x.file is the file named x.filename, errno = 0
\* when access(R_OK) succeeds
server_validate_file_access(x, errno) ==
    IF ~x.file.exists
    THEN [send_error_packet(x, ERROR_FILE_NOT_FOUND, <<>>) EXCEPT !.ret = FALSE]
    ELSE IF errno /= 0
    THEN [send_error_packet(x, ERROR_ACCESS_VIOLATION, <<>>) EXCEPT !.ret = FALSE]
    ELSE [x EXCEPT !.filepath = "rb", !.pos = 0, !.ret = TRUE]

\* validate_upload_file without the test for an existing file
server_validate_upload_file_accepting(x) == [x EXCEPT !.ret = TRUE]

server_validate_upload_file(x) ==
    IF x.file.exists
    THEN [send_error_packet(x, ERROR_FILE_EXISTS, <<>>) EXCEPT !.ret = FALSE]
    ELSE [x EXCEPT !.ret = TRUE]

validate_delete_file(x) ==
    IF ~x.file.exists
    THEN [send_error_packet(x, ERROR_FILE_NOT_FOUND, <<>>) EXCEPT !.ret = FALSE]
    ELSE [x EXCEPT !.ret = TRUE]

\* validate_request; fs is the server's directory
validate_request(x, len, fs, errno) ==
    Let(validate_request_count(x, len), LAMBDA a :
    IF ~a.ret THEN a ELSE
    Let(validate_mode(a), LAMBDA b :
    IF ~b.ret THEN b ELSE
    Let(server_validate_operation(b), LAMBDA c :
    IF ~c.ret THEN c ELSE
    Let(server_validate_filename(c), LAMBDA d :
    IF ~d.ret THEN d ELSE
    Let([d EXCEPT !.file = fs_get(fs, d.filename)], LAMBDA e :
    IF e.opcode = TFTP_RRQ THEN server_validate_file_access(e, errno)
    ELSE IF e.opcode = TFTP_WRQ THEN server_validate_upload_file(e)
    ELSE IF e.opcode = TFTP_DRQ THEN validate_delete_file(e)
    ELSE [e EXCEPT !.ret = TRUE])))))

\* the handlers up to their first blocking receive; pc = "wait" when the
\* handler has returned
\* upload_request acknowledging the request before it looks at what fopen
\* returned
server_upload_request_begin_acks_first(x, errno) ==
    IF errno /= 0
    THEN [send_error_packet(send_ack([x EXCEPT !.success = FALSE], 0),
                            ERROR_UNDEFINED, MsgOpenForWriting)
            EXCEPT !.pc = "wait"]
    ELSE [send_ack([x EXCEPT !.file = File(<<>>), !.filepath = "wb",
                             !.success = FALSE], 0)
            EXCEPT !.block_number = 1, !.retry = -2, !.pc = "recv"]

\* errno = 0 when fopen succeeds
server_upload_request_begin(x, errno) ==
    IF errno /= 0
    THEN [send_error_packet([x EXCEPT !.success = FALSE],
                            ERROR_UNDEFINED, MsgOpenForWriting)
            EXCEPT !.pc = "wait"]
    ELSE [send_ack([x EXCEPT !.file = File(<<>>), !.filepath = "wb",
                             !.success = FALSE], 0)
            EXCEPT !.block_number = 1, !.retry = -2, !.pc = "recv"]

server_upload_request_loop(x, dgram, len, errno) ==
    Let(process_transfer_receive(x, dgram, len, errno), LAMBDA y :
    IF y.ret THEN y
    ELSE IF ~y.success \/ at(y.buffer, 1) = TFTP_ERROR
    THEN [y EXCEPT !.file = NoFile, !.filepath = "NULL", !.pc = "wait"]
    ELSE [y EXCEPT !.filepath = "NULL", !.pc = "wait"])

server_download_request_begin(x) ==
    Let(process_transfer_send_begin(
            [x EXCEPT !.success = FALSE, !.block_number = 1, !.retry = 0]),
        LAMBDA y :
    IF y.ret THEN [y EXCEPT !.pc = "send"]
    ELSE [y EXCEPT !.filepath = "NULL", !.pc = "wait"])

server_download_request_loop(x, dgram, len) ==
    Let(send_loop(x, dgram, len), LAMBDA y :
    IF y.ret THEN y ELSE [y EXCEPT !.filepath = "NULL", !.pc = "wait"])

\* delete_request acknowledging whether or not remove succeeded
server_delete_request_acks_anyway(x, errno) ==
    [send_ack((IF errno = 0 THEN [x EXCEPT !.file = NoFile] ELSE x), 0)
        EXCEPT !.pc = "wait"]

\* delete_request: errno = 0 when remove succeeds; when it fails (with
\* EACCES) the custom message of the ERROR packet is strerror(errno)
server_delete_request(x, errno) ==
    IF errno = 0
    THEN [send_ack([x EXCEPT !.file = NoFile], 0) EXCEPT !.pc = "wait"]
    ELSE [send_error_packet(x, ERROR_UNDEFINED, MsgPermissionDenied)
            EXCEPT !.pc = "wait"]

\* errno values of setsockopt.  The errno of a step names the one library
\* call that fails in it: ENOMEM the setsockopt(SO_RCVTIMEO) that sets the
\* timeout at the start of handle_request, ENOBUFS the one that clears it
\* at the end; any other value is that of the call made in the handler.
ENOMEM == 12
ENOBUFS == 105

\* errno as the handler's own library calls (access, fopen, fwrite, remove)
\* see it
LibErrno(errno) == IF errno \in {ENOMEM, ENOBUFS} THEN 0 ELSE errno

\* handle_request without the call of set_socket_timeout
handle_request_no_timeout(x, errno) ==
    CASE x.opcode = TFTP_RRQ ->
            server_download_request_begin([x EXCEPT !.handled = TRUE])
      [] x.opcode = TFTP_WRQ ->
            server_upload_request_begin([x EXCEPT !.handled = TRUE], LibErrno(errno))
      [] x.opcode = TFTP_DRQ ->
            server_delete_request([x EXCEPT !.handled = TRUE], LibErrno(errno))
      [] OTHER ->
            send_error_packet([x EXCEPT !.handled = TRUE],
                              ERROR_ILLEGAL_OPERATION, <<>>)

\* handle_request up to the handler's first blocking receive; when
\* set_socket_timeout fails it returns at once
handle_request(x, errno) ==
    CASE errno = ENOMEM -> x
      [] x.opcode = TFTP_RRQ ->
            server_download_request_begin([x EXCEPT !.rcvtimeo = TFTP_TIMEOUT,
                                                    !.handled = TRUE])
      [] x.opcode = TFTP_WRQ ->
            server_upload_request_begin([x EXCEPT !.rcvtimeo = TFTP_TIMEOUT,
                                                  !.handled = TRUE], LibErrno(errno))
      [] x.opcode = TFTP_DRQ ->
            server_delete_request([x EXCEPT !.rcvtimeo = TFTP_TIMEOUT,
                                            !.handled = TRUE], LibErrno(errno))
      [] OTHER ->
            send_error_packet([x EXCEPT !.rcvtimeo = TFTP_TIMEOUT, !.handled = TRUE],
                              ERROR_ILLEGAL_OPERATION, <<>>)

\* the end of handle_request when a handler has run (set_socket_timeout
\* with 0, whose result is not looked at; the handler's locals are gone),
\* and the start of the next iteration of prog
server_return(x, errno) ==
    init_request([x EXCEPT !.rcvtimeo = IF x.handled /\ errno /= ENOBUFS THEN 0 ELSE @,
                           !.block_number = 0, !.retry = 0,
                           !.success = FALSE, !.bytes_read = 0, !.pos = 0])

\* one iteration of prog from the return of its recvfrom
server_prog(x, dgram, len, fs, errno) ==
    IF len <= 0 THEN [recvfrom(x, dgram, len) EXCEPT !.ret = FALSE]
    ELSE Let(validate_request(recvfrom(x, dgram, len), len, fs, LibErrno(errno)), LAMBDA z :
         IF ~z.ret THEN z ELSE handle_request(z, errno))

(***************************************************************************)
(* What "the transfer completed" means, read off the datagrams alone       *)
(* (not off the success flag of the code)                                  *)
(***************************************************************************)
IsAck(d, b) == Len(d) >= TFTP_DATA_HEADER_SIZE /\ Opcode(d) = TFTP_ACK /\ Block(d) = b
IsData(d, b) == Len(d) >= TFTP_DATA_HEADER_SIZE /\ Opcode(d) = TFTP_DATA /\ Block(d) = b

\* a sender e blocked after DATA(e.block_number) gets the ACK of that
\* block, and the block was short
SendCompleted(e, dgram, len) ==
    /\ len >= 0
    /\ IsAck(dgram.data, e.block_number)
    /\ e.bytes_read < TFTP_MAX_DATA_SIZE

\* a receiver e expecting e.block_number gets that block, short, and
\* acknowledges it (out: what it sent in the step)
RecvCompleted(e, dgram, len, out) ==
    /\ len >= 0
    /\ IsData(dgram.data, e.block_number)
    /\ len - TFTP_DATA_HEADER_SIZE < TFTP_MAX_DATA_SIZE
    /\ \E i \in 1..Len(out) : IsAck(out[i], e.block_number)

Outcome(ok) == IF ok THEN "complete" ELSE "failed"

(***************************************************************************)
(* Actions of the client                                                   *)
(***************************************************************************)
Quiescent == toS = <<>> /\ toC = <<>>

Faults == lost + dups + injected + wfails

\* errno values fwrite and remove may fail with
ENOSPC == 28
EACCES == 13
EIO == 5

\* main from validate_arguments to the handler's first blocking receive;
\* cwd is the file FileName of the working directory, path the file to upload
client_main(cmd, cwd, path) ==
    IF ~validate_arguments(cmd, cwd, path) THEN Ctx(ClientIdle, cwd)
    ELSE Let(client_validate_operation(cmd.operation), LAMBDA op :
         CASE op = TFTP_RRQ ->
                client_download_request_begin(
                    Ctx([ClientIdle EXCEPT !.opcode = op, !.filename = FileName,
                                           !.rcvtimeo = TFTP_TIMEOUT], cwd))
           [] op = TFTP_WRQ ->
                client_upload_request_begin(
                    Ctx([ClientIdle EXCEPT !.opcode = op, !.filename = FileName,
                                           !.filepath = "rb",
                                           !.rcvtimeo = TFTP_TIMEOUT], path))
           [] OTHER ->
                client_delete_request_begin(
                    Ctx([ClientIdle EXCEPT !.opcode = op, !.filename = FileName,
                                           !.rcvtimeo = TFTP_TIMEOUT], NoFile)))

\* the state after client_main has run to x
ClientStarted(op, cmd, clean, cwd, path, valid, x) ==
    /\ cli' = Strip(x)
    /\ cfile' = IF valid /\ op = TFTP_RRQ THEN x.file ELSE cwd
    /\ toS' = toS \o Tag(x.out, runs + 1)
    /\ toC' = <<>>
    /\ runs' = runs + 1
    /\ hist' = Append(hist, [op |-> op, clean |-> clean, valid |-> valid,
                             cmd |-> cmd, source |-> path.exists, target |-> cwd.exists,
                             srvIdle |-> srv.pc = "wait" /\ toS = <<>>,
                             srvFile |-> fs_get(sfs, FileName),
                             looped |-> valid /\ op = TFTP_RRQ,
                             exit |-> IF valid THEN -1 ELSE EXIT_FAILURE,
                             res |-> IF valid THEN "none" ELSE "failed",
                             retry |-> 0,
                             block |-> 0,
                             released |-> <<>>])
    /\ log' = Sent(x.out, "c")

\* A client process is started: main, validate_arguments, initialize_socket,
\* prog and the handler up to its first blocking receive.  clean: the
\* process is started in an empty working directory.
ClientStartWith(cmd, clean, path) ==
    /\ cli.pc = "idle"
    /\ runs < limit.runs
    /\ src' = IF client_validate_operation(cmd.operation) = TFTP_WRQ THEN path ELSE src
    /\ ClientStarted(client_validate_operation(cmd.operation), cmd, clean,
                     IF clean THEN NoFile ELSE cfile, path,
                     validate_arguments(cmd, IF clean THEN NoFile ELSE cfile, path),
                     client_main(cmd, IF clean THEN NoFile ELSE cfile, path))
    /\ UNCHANGED <<srv, limit, sfs, sres, lost, dups, injected, wfails>>

\* the same for a well-formed command line of operation op
ClientStart(op, clean, path) == ClientStartWith(CommandLine(op), clean, path)

\* the handler the client is blocked in, from the return of its receive
client_resume(e, dgram, len, errno) ==
    CASE e.pc = "hs" /\ e.opcode = TFTP_WRQ ->
            client_upload_request_handshake(Ctx(e, src), dgram, len)
      [] e.pc = "hs" /\ e.opcode = TFTP_DRQ ->
            client_delete_request_handshake(Ctx(e, NoFile), dgram, len)
      [] e.pc = "send" ->
            client_upload_request_loop(Ctx(e, src), dgram, len)
      [] e.pc = "recv" ->
            client_download_request_loop(Ctx(e, cfile), dgram, len, errno)

\* the state after client_resume has run from e to x; nothing is left of a
\* process that has exited but its exit status
ClientResumed(e, x, dgram, len, errno) ==
    /\ cli' = IF x.pc = "idle" THEN ClientIdle ELSE Strip(x)
    /\ cfile' = IF e.pc = "recv" THEN x.file ELSE cfile
    /\ toS' = toS \o (IF x.addr = TFTP_PORT THEN Tag(x.out, runs) ELSE <<>>)
    /\ toC' = IF x.pc = "idle" THEN <<>> ELSE IF len < 0 THEN toC ELSE Tail(toC)
    /\ log' = log \o Rcvd(dgram, len, "c") \o Sent(x.out, "c")
    /\ hist' = [hist EXCEPT
                    ![runs].looped =
                        \/ @
                        \/ /\ e.pc = "hs" /\ e.opcode = TFTP_WRQ
                           /\ get_response(recvfrom(Ctx(e, src), dgram, len).buffer, len) >= 0,
                    ![runs].exit = IF x.pc = "idle" THEN main_exit(x) ELSE @,
                    ![runs].released = IF x.pc = "idle" THEN main_cleanup(x).released ELSE @,
                    ![runs].retry = IF x.pc = "idle" THEN x.retry ELSE @,
                    ![runs].block = IF x.pc = "idle" THEN x.block_number ELSE @,
                    ![runs].res =
                        IF x.pc /= "idle" THEN @
                        ELSE Outcome(CASE e.pc = "send" -> SendCompleted(e, dgram, len)
                                       [] e.pc = "recv" ->
                                            RecvCompleted(e, dgram, len, x.out) /\ errno = 0
                                       [] e.pc = "hs" /\ e.opcode = TFTP_DRQ ->
                                            len >= 0 /\ IsAck(dgram.data, 0)
                                       [] OTHER -> FALSE)]

\* The client's blocking receive returns (a datagram, or len = -1 after the
\* timeout) and the handler runs to its next receive or to the exit of main.
ClientStep(dgram, len, errno) ==
    /\ ClientResumed(cli, client_resume(cli, dgram, len, errno), dgram, len, errno)
    /\ UNCHANGED <<srv, src, limit, sfs, runs, sres>>

\* fwrite is reached in process_transfer_receive for this datagram
fwrite_called(e, dgram) ==
    Let(recvfrom(Ctx(e, NoFile), dgram, recvfrom_len(dgram)), LAMBDA y :
        /\ get_response(y.buffer, recvfrom_len(dgram)) >= TFTP_DATA_HEADER_SIZE
        /\ validate_and_retry(y, 0, FALSE).ret)

ClientReceive ==
    /\ cli.pc /= "idle"
    /\ toC /= <<>>
    /\ ClientStep(Head(toC), recvfrom_len(Head(toC)), 0)
    /\ UNCHANGED <<lost, dups, injected, wfails>>

ClientTimeout ==
    /\ cli.pc /= "idle"
    /\ Quiescent
    /\ ClientStep(NoDgram, -1, 0)
    /\ UNCHANGED <<lost, dups, injected, wfails>>

ClientWriteFails ==
    /\ cli.pc = "recv"
    /\ toC /= <<>>
    /\ Faults < MaxFaults
    /\ fwrite_called(cli, Head(toC))
    /\ \E errno \in {ENOSPC, EACCES, EIO} :
            ClientStep(Head(toC), recvfrom_len(Head(toC)), errno)
    /\ wfails' = wfails + 1
    /\ UNCHANGED <<lost, dups, injected>>

(***************************************************************************)
(* Actions of the server                                                   *)
(***************************************************************************)
\* the server from the return of the receive it is blocked in
server_resume(e, dgram, len, errno) ==
    CASE e.pc = "wait" -> server_prog(Ctx(e, NoFile), dgram, len, sfs, errno)
      [] e.pc = "send" ->
            server_download_request_loop(
                [Ctx(e, fs_get(sfs, e.filename)) EXCEPT !.handled = TRUE], dgram, len)
      [] e.pc = "recv" ->
            server_upload_request_loop(
                [Ctx(e, fs_get(sfs, e.filename)) EXCEPT !.handled = TRUE], dgram, len,
                LibErrno(errno))

\* the state after server_resume has run from e to x
ServerResumed(e, x, dgram, len, errno) ==
    /\ srv' = Strip(IF x.pc = "wait" THEN server_return(x, errno) ELSE x)
    /\ sfs' = IF x.handled THEN fs_put(sfs, x.filename, x.file) ELSE sfs
    /\ sres' = IF x.handled
               THEN [op |-> x.opcode,
                     retry |-> x.retry,
                     block |-> x.block_number,
                     res |-> IF x.pc /= "wait" THEN "none"
                             ELSE Outcome(CASE e.pc = "send" -> SendCompleted(e, dgram, len)
                                            [] e.pc = "recv" ->
                                                RecvCompleted(e, dgram, len, x.out)
                                                    /\ LibErrno(errno) = 0
                                            [] OTHER -> x.opcode = TFTP_DRQ)]
               ELSE sres
    /\ toS' = IF len < 0 THEN toS ELSE Tail(toS)
    /\ toC' = toC \o (IF x.addr = runs /\ cli.pc /= "idle"
                      THEN Tag(x.out, TFTP_PORT) ELSE <<>>)
    /\ log' = log \o Rcvd(dgram, len, "s") \o Sent(x.out, "s")

\* The server's blocking receive returns, in the dispatcher (pc = "wait")
\* or inside a transfer, and the server runs to its next blocking receive.
ServerStep(dgram, len, errno) ==
    /\ ServerResumed(srv, server_resume(srv, dgram, len, errno), dgram, len, errno)
    /\ UNCHANGED <<cli, src, limit, cfile, runs, hist>>

ServerReceive ==
    /\ toS /= <<>>
    /\ ServerStep(Head(toS), recvfrom_len(Head(toS)), 0)
    /\ UNCHANGED <<lost, dups, injected, wfails>>

ServerTimeout ==
    /\ srv.pc /= "wait"
    /\ srv.rcvtimeo > 0
    /\ Quiescent
    /\ ServerStep(NoDgram, -1, 0)
    /\ UNCHANGED <<lost, dups, injected, wfails>>

\* the receive of a handler times out while nothing is queued at the
\* server's socket, whatever is on its way to the client
ServerTimeoutAlone ==
    /\ srv.pc /= "wait"
    /\ srv.rcvtimeo > 0
    /\ toS = <<>>
    /\ ServerStep(NoDgram, -1, 0)
    /\ UNCHANGED <<lost, dups, injected, wfails>>

ServerWriteFails ==
    /\ srv.pc = "recv"
    /\ toS /= <<>>
    /\ Faults < MaxFaults
    /\ fwrite_called(srv, Head(toS))
    /\ \E errno \in {ENOSPC, EACCES, EIO} :
            ServerStep(Head(toS), recvfrom_len(Head(toS)), errno)
    /\ wfails' = wfails + 1
    /\ UNCHANGED <<lost, dups, injected>>

\* validate_request takes this datagram as a request with this opcode, and
\* the library call made for it is reached: access(R_OK) in
\* validate_file_access for a RRQ, fopen in upload_request for a WRQ, remove
\* in delete_request for a DRQ
call_reached(e, dgram, opcode) ==
    Let(validate_request(recvfrom(Ctx(e, NoFile), dgram, recvfrom_len(dgram)),
                         recvfrom_len(dgram), sfs, 0),
        LAMBDA z : z.ret /\ z.opcode = opcode)

ServerRemoveFails ==
    /\ srv.pc = "wait"
    /\ toS /= <<>>
    /\ Faults < MaxFaults
    /\ call_reached(srv, Head(toS), TFTP_DRQ)
    /\ ServerStep(Head(toS), recvfrom_len(Head(toS)), EACCES)
    /\ wfails' = wfails + 1
    /\ UNCHANGED <<lost, dups, injected>>

\* the file a RRQ names may not be read
ServerAccessFails ==
    /\ srv.pc = "wait"
    /\ toS /= <<>>
    /\ Faults < MaxFaults
    /\ call_reached(srv, Head(toS), TFTP_RRQ)
    /\ ServerStep(Head(toS), recvfrom_len(Head(toS)), EACCES)
    /\ wfails' = wfails + 1
    /\ UNCHANGED <<lost, dups, injected>>

\* set_socket_timeout is called in this step of the server: with the
\* timeout at the start of handle_request (errno ENOMEM), or with 0 at its
\* end (errno ENOBUFS)
set_socket_timeout_called(e, dgram, errno) ==
    Let(server_resume(e, dgram, recvfrom_len(dgram), 0),
        LAMBDA x : x.handled /\ IF errno = ENOMEM THEN e.pc = "wait" ELSE x.pc = "wait")

\* a setsockopt(SO_RCVTIMEO) of handle_request fails
ServerSetTimeoutFails ==
    /\ toS /= <<>>
    /\ Faults < MaxFaults
    /\ \E errno \in {ENOMEM, ENOBUFS} :
            /\ set_socket_timeout_called(srv, Head(toS), errno)
            /\ ServerStep(Head(toS), recvfrom_len(Head(toS)), errno)
    /\ wfails' = wfails + 1
    /\ UNCHANGED <<lost, dups, injected>>

ServerOpenFails ==
    /\ srv.pc = "wait"
    /\ toS /= <<>>
    /\ Faults < MaxFaults
    /\ call_reached(srv, Head(toS), TFTP_WRQ)
    /\ ServerStep(Head(toS), recvfrom_len(Head(toS)), EACCES)
    /\ wfails' = wfails + 1
    /\ UNCHANGED <<lost, dups, injected>>

(***************************************************************************)
(* The channel and other hosts                                             *)
(***************************************************************************)
Remove(q, i) == SubSeq(q, 1, i - 1) \o SubSeq(q, i + 1, Len(q))
Twice(q, i) == SubSeq(q, 1, i) \o SubSeq(q, i, Len(q))

Lose ==
    /\ Faults < MaxFaults
    /\ \/ \E i \in 1..Len(toS) : toS' = Remove(toS, i) /\ toC' = toC
       \/ \E i \in 1..Len(toC) : toC' = Remove(toC, i) /\ toS' = toS
    /\ lost' = lost + 1
    /\ UNCHANGED <<cli, srv, src, limit, cfile, sfs, runs, hist, sres, log, dups, injected, wfails>>

Duplicate ==
    /\ Faults < MaxFaults
    /\ \/ \E i \in 1..Len(toS) : toS' = Twice(toS, i) /\ toC' = toC
       \/ \E i \in 1..Len(toC) : toC' = Twice(toC, i) /\ toS' = toS
    /\ dups' = dups + 1
    /\ UNCHANGED <<cli, srv, src, limit, cfile, sfs, runs, hist, sres, log, lost, injected, wfails>>

\* datagrams a third host sends
AckPacket(b) == <<0, TFTP_ACK, b \div 256, b % 256>>
DataPacket(b, payload) == <<0, TFTP_DATA, b \div 256, b % 256>> \o payload
RequestPacket(op, name, mode) == <<0, op>> \o name \o <<0>> \o mode \o <<0>>
ErrorPacket(code) ==
    <<0, TFTP_ERROR, 0, code>> \o tftp_error_message(code) \o <<0>>

InjectPackets ==
    { AckPacket(b) : b \in 0..2 }
    \cup { DataPacket(b, <<7>>) : b \in 1..2 }
    \cup { DataPacket(1, Bytes(7, TFTP_MAX_DATA_SIZE + 1)) }
    \cup { ErrorPacket(ERROR_UNDEFINED) }
    \cup { RequestPacket(TFTP_RRQ, FileName, MODE) }

\* a datagram of P, from a third host, arrives at a process that is blocked
\* in a handler's receive with nothing else queued
Arrives(P) ==
    /\ \E p \in P :
        \/ /\ srv.pc /= "wait" /\ toS = <<>>
           /\ toS' = Append(toS, [src |-> OtherHost, data |-> p]) /\ toC' = toC
        \/ /\ cli.pc /= "idle" /\ toC = <<>>
           /\ toC' = Append(toC, [src |-> OtherHost, data |-> p]) /\ toS' = toS
    /\ injected' = injected + 1
    /\ UNCHANGED <<cli, srv, src, limit, cfile, sfs, runs, hist, sres, log, lost, dups, wfails>>

Inject ==
    /\ Faults < MaxFaults
    /\ Arrives(InjectPackets)

\* datagrams whose block number no transfer is waiting for
StalePackets == { AckPacket(0), DataPacket(0, <<7>>) }

\* like Inject, with stale datagrams only and a budget of its own
InjectStale ==
    /\ injected < MaxStale
    /\ Arrives(StalePackets)

\* request datagrams of a third host: every opcode, a name or none, modes
\* that are "octet" in some case and modes that are not
ForeignOpcodes == {TFTP_RRQ, TFTP_WRQ, TFTP_DRQ, TFTP_DATA, 7}
ForeignNames == {FileName, <<>>}
ModeUpper == <<79, 67, 84, 69, 84>>
ModeOcte == <<111, 99, 116, 101>>
ModeNetascii == <<110, 101, 116, 97, 115, 99, 105, 105>>
ForeignModes == {MODE, ModeUpper, ModeOcte, ModeNetascii, <<>>}

\* a third host's request arrives at the server waiting in its dispatcher
ForeignRequest ==
    /\ Faults < MaxFaults
    /\ srv.pc = "wait"
    /\ toS = <<>>
    /\ \E op \in ForeignOpcodes, name \in ForeignNames, mode \in ForeignModes :
            toS' = Append(toS, [src |-> OtherHost,
                                data |-> RequestPacket(op, name, mode)])
    /\ injected' = injected + 1
    /\ UNCHANGED <<cli, srv, src, limit, cfile, sfs, toC, runs, hist, sres, log, lost, dups, wfails>>

(***************************************************************************)
(* Specifications                                                          *)
(***************************************************************************)
\* the files a client is asked to upload
Sources == { File(Bytes(0, n)) : n \in FileSizes(limit.blocks) }

InitWith(r, b) ==
    /\ limit = [runs |-> r, blocks |-> b]
    /\ cli = ClientIdle
    /\ srv = ServerWaiting
    /\ src = NoFile
    /\ cfile = NoFile
    /\ sfs \in { [n \in {FileName} |-> f] :
                    f \in {NoFile} \cup { File(Bytes(100, n)) : n \in FileSizes(b) } }
    /\ toS = <<>>
    /\ toC = <<>>
    /\ runs = 0
    /\ hist = <<>>
    /\ sres = [op |-> 0, retry |-> 0, block |-> 0, res |-> "none"]
    /\ log = <<>>
    /\ lost = 0
    /\ dups = 0
    /\ injected = 0
    /\ wfails = 0

ClientBegins ==
    \/ \E path \in Sources : ClientStart(TFTP_WRQ, TRUE, path)
    \/ \E clean \in BOOLEAN : (clean \/ cfile.exists) /\ ClientStart(TFTP_RRQ, clean, NoFile)
    \/ ClientStart(TFTP_DRQ, TRUE, NoFile)

\* command lines that differ from a well-formed one in one respect
BadCommandLines ==
    { [CommandLine(op) EXCEPT !.argc = TFTP_NUM_ARGUMENTS - 1] : op \in {TFTP_WRQ} }
    \cup { [CommandLine(op) EXCEPT !.argc = TFTP_NUM_ARGUMENTS + 1] : op \in {TFTP_RRQ} }
    \cup { [CommandLine(op) EXCEPT !.operation = "rename"] : op \in {TFTP_DRQ} }
    \cup { [CommandLine(op) EXCEPT !.pathlen = MAX_FILE_NAME + 1] :
                op \in {TFTP_WRQ, TFTP_RRQ, TFTP_DRQ} }
    \cup { [CommandLine(op) EXCEPT !.readable = FALSE] : op \in {TFTP_WRQ} }

\* a client is started with a command line that is not well-formed, or as
\* an upload of a path that names no file
ClientBeginsBadly ==
    \/ \E cmd \in BadCommandLines : ClientStartWith(cmd, TRUE, File(<<>>))
    \/ ClientStart(TFTP_WRQ, TRUE, NoFile)

\* a channel that neither loses, duplicates nor reorders, no third host,
\* no failing write
NextLossFree ==
    \/ ClientBegins
    \/ ClientReceive
    \/ ClientTimeout
    \/ ServerReceive
    \/ ServerTimeout

SpecLossFree == InitWith(MaxRuns, MaxBlocks) /\ [][NextLossFree]_vars

Next ==
    \/ ClientBegins
    \/ ClientReceive
    \/ ClientTimeout
    \/ ClientWriteFails
    \/ ServerReceive
    \/ ServerTimeout
    \/ ServerWriteFails
    \/ ServerRemoveFails
    \/ ServerOpenFails
    \/ ServerAccessFails
    \/ Lose
    \/ Duplicate
    \/ Inject
    \/ ForeignRequest
    \/ ClientBeginsBadly

Spec == InitWith(MaxFaultyRuns, MaxFaultyBlocks) /\ [][Next]_vars

\* a channel that loses nothing, and a third host whose stale datagrams
\* arrive at the transfers
NextStale ==
    \/ ClientBegins
    \/ ClientReceive
    \/ ClientTimeout
    \/ ServerReceive
    \/ ServerTimeout
    \/ InjectStale

SpecStale == InitWith(MaxFaultyRuns, MaxFaultyBlocks) /\ [][NextStale]_vars

\* a channel that loses nothing: requests of the client and of a third
\* host, and a remove that may fail
NextRequests ==
    \/ ClientBegins
    \/ ClientReceive
    \/ ClientTimeout
    \/ ServerReceive
    \/ ServerTimeout
    \/ ServerRemoveFails
    \/ ServerOpenFails
    \/ ServerAccessFails
    \/ ForeignRequest
    \/ ClientBeginsBadly

SpecRequests == InitWith(MaxFaultyRuns, MaxFaultyBlocks) /\ [][NextRequests]_vars

\* a channel that loses nothing, and a setsockopt that may fail
NextSetTimeout ==
    \/ ClientBegins
    \/ ClientReceive
    \/ ClientTimeout
    \/ ServerReceive
    \/ ServerTimeout
    \/ ServerSetTimeoutFails
    \/ ForeignRequest

SpecSetTimeout == InitWith(MaxFaultyRuns, MaxFaultyBlocks) /\ [][NextSetTimeout]_vars

\* a loss-free channel, and command lines of every kind
NextArguments ==
    \/ ClientBegins
    \/ ClientBeginsBadly
    \/ ClientReceive
    \/ ClientTimeout
    \/ ServerReceive
    \/ ServerTimeout

SpecArguments == InitWith(MaxRuns, MaxFaultyBlocks) /\ [][NextArguments]_vars

\* the server process with any peer: clients that may stop reading and
\* sending at any point, a channel that loses, and a third host.  The
\* server process itself keeps running: a receive it is blocked in returns
\* when a datagram is queued, or when its timeout, if one is set, expires.
NextLive ==
    \/ ClientBegins
    \/ ClientReceive
    \/ ClientTimeout
    \/ ServerReceive
    \/ ServerTimeoutAlone
    \/ Lose
    \/ Inject
    \/ ForeignRequest

ServerRuns == ServerReceive \/ ServerTimeoutAlone

\* the states in which a step of ServerRuns can be taken
ServerCanRun == toS /= <<>> \/ (srv.pc /= "wait" /\ srv.rcvtimeo > 0)

\* weak fairness of ServerRuns, WF_vars(ServerRuns), with its enabling
\* condition written out
ServerFair == []<>(~ServerCanRun) \/ []<><<ServerRuns>>_vars

SpecLive ==
    /\ InitWith(MaxFaultyRuns, MaxFaultyBlocks)
    /\ [][NextLive]_vars
    /\ ServerFair

\* A transfer that has come to block 65535: the sender has read the block
\* and sent DATA(65535), the receiver has acknowledged block 65534 and
\* waits.  Of the file sent and of the file written only the part from
\* block 65535 on is kept (the 65534 blocks before it are left out), and
\* the source has up to one more block after it.
InitWrap ==
    /\ limit = [runs |-> 1, blocks |-> MaxFaultyBlocks]
    /\ \E op \in {TFTP_WRQ, TFTP_RRQ}, n \in FileSizes(MaxFaultyBlocks) :
         Let(process_transfer_send_begin(
               Ctx([pc |-> "send", opcode |-> op, filename |-> FileName,
                    filepath |-> "rb", buffer |-> ZeroBuffer, block_number |-> 65535,
                    retry |-> 0, success |-> TRUE, bytes_read |-> 0, pos |-> 0,
                    addr |-> IF op = TFTP_WRQ THEN TFTP_PORT ELSE 1,
                    rcvtimeo |-> TFTP_TIMEOUT],
                   File(Bytes(0, TFTP_MAX_DATA_SIZE + n)))),
             LAMBDA x :
         Let([pc |-> "recv", opcode |-> op, filename |-> FileName,
              filepath |-> "wb", buffer |-> poke(ZeroBuffer, 0, <<0, TFTP_ACK, 255, 254>>),
              block_number |-> 65535, retry |-> 0, success |-> TRUE,
              bytes_read |-> 0, pos |-> 0,
              addr |-> IF op = TFTP_WRQ THEN 1 ELSE TFTP_PORT,
              rcvtimeo |-> TFTP_TIMEOUT],
             LAMBDA r :
            /\ cli = IF op = TFTP_WRQ THEN Strip(x) ELSE r
            /\ srv = IF op = TFTP_WRQ THEN r ELSE Strip(x)
            /\ src = IF op = TFTP_WRQ THEN x.file ELSE NoFile
            /\ cfile = IF op = TFTP_WRQ THEN NoFile ELSE File(<<>>)
            /\ sfs = [f \in {FileName} |-> IF op = TFTP_WRQ THEN File(<<>>) ELSE x.file]
            /\ toS = IF op = TFTP_WRQ THEN Tag(x.out, 1) ELSE <<>>
            /\ toC = IF op = TFTP_WRQ THEN <<>> ELSE Tag(x.out, TFTP_PORT)
            /\ log = Sent(x.out, IF op = TFTP_WRQ THEN "c" ELSE "s")
            /\ hist = <<[op |-> op, clean |-> TRUE, valid |-> TRUE,
                         cmd |-> CommandLine(op), source |-> op = TFTP_WRQ,
                         target |-> FALSE, srvIdle |-> TRUE,
                         srvFile |-> IF op = TFTP_WRQ THEN NoFile ELSE x.file,
                         looped |-> TRUE, exit |-> -1, res |-> "none",
                         retry |-> 0, block |-> 0, released |-> <<>>]>>
            /\ sres = [op |-> op, retry |-> 0, block |-> 65535, res |-> "none"]))
    /\ runs = 1
    /\ lost = 0
    /\ dups = 0
    /\ injected = 0
    /\ wfails = 0

\* a channel that may lose or duplicate a datagram
NextWrap ==
    \/ ClientReceive
    \/ ClientTimeout
    \/ ServerReceive
    \/ ServerTimeout
    \/ Lose
    \/ Duplicate

SpecWrap == InitWrap /\ [][NextWrap]_vars

TypeOK ==
    /\ cli.pc \in {"idle", "hs", "send", "recv"}
    /\ srv.pc \in {"wait", "send", "recv"}
    /\ Len(cli.buffer) = TFTP_MAX_PACKET_SIZE
    /\ Len(srv.buffer) = TFTP_MAX_PACKET_SIZE
    /\ runs \in 0..limit.runs
    /\ Len(hist) = runs

(***************************************************************************)
(* Reading the history                                                     *)
(***************************************************************************)
\* the datagrams put on the wire since the current run started, in order
Wire == SelectSeq(log, LAMBDA v : v.ev = "snd")
DataSentBy(who) ==
    SelectSeq(log, LAMBDA v : v.ev = "snd" /\ v.by = who /\ Opcode(v.data) = TFTP_DATA)
AcksSentBy(who) ==
    SelectSeq(log, LAMBDA v : v.ev = "snd" /\ v.by = who /\ Opcode(v.data) = TFTP_ACK)
ErrorSeenBy(who) ==
    \E i \in 1..Len(log) : log[i].by = who /\ Opcode(log[i].data) = TFTP_ERROR

\* block k (1, 2, ...) of a byte string
BlockOf(S, k) ==
    SubSeq(S, TFTP_MAX_DATA_SIZE * (k - 1) + 1, Min(TFTP_MAX_DATA_SIZE * k, Len(S)))
\* number of DATA blocks the protocol needs for n bytes: the last one is short
BlocksFor(n) == n \div TFTP_MAX_DATA_SIZE + 1

\* the current run is over and was of kind op, started while the server was
\* waiting in its dispatcher with nothing queued
RunOver(op) ==
    /\ runs >= 1
    /\ cli.pc = "idle"
    /\ hist[runs].op = op
    /\ hist[runs].valid
    /\ hist[runs].srvIdle

\* the step taken is a step of `who` whose receive timed out / returned d
TimedOut(who) ==
    /\ Len(log') > Len(log)
    /\ log'[Len(log) + 1] = [ev |-> "tmo", by |-> who, data |-> <<>>]
Received(who, d) ==
    /\ Len(log') > Len(log)
    /\ log'[Len(log) + 1] = [ev |-> "rcv", by |-> who, data |-> d]
\* the datagrams `who` sent in the step taken
SentInStep(who) ==
    SelectSeq(SubSeq(log', Len(log) + 1, Len(log')),
              LAMBDA v : v.ev = "snd" /\ v.by = who)

Endpoint(who) == IF who = "c" THEN cli ELSE srv
EndpointNext(who) == IF who = "c" THEN cli' ELSE srv'

\* the block number of `who` when the step taken is over: that of the
\* handler still running, or the one its transfer ended with
BlockAfter(who) ==
    IF EndpointNext(who).pc \in {"send", "recv"}
    THEN EndpointNext(who).block_number
    ELSE IF who = "c" THEN hist'[runs].block ELSE sres'.block

\* the exchange of a complete upload of S: WRQ, ACK(0), DATA(k), ACK(k) ...
ExpectedUploadWire(S) ==
    [i \in 1..(2 + 2 * BlocksFor(Len(S))) |->
        IF i = 1 THEN [ev |-> "snd", by |-> "c",
                       data |-> RequestPacket(TFTP_WRQ, FileName, MODE)]
        ELSE IF i = 2 THEN [ev |-> "snd", by |-> "s", data |-> AckPacket(0)]
        ELSE IF i % 2 = 1
        THEN [ev |-> "snd", by |-> "c",
              data |-> DataPacket((i - 1) \div 2, BlockOf(S, (i - 1) \div 2))]
        ELSE [ev |-> "snd", by |-> "s", data |-> AckPacket((i - 1) \div 2)]]

(***************************************************************************)
(* C1: on a loss-free channel, for every byte string S (the empty one and  *)
(* exact multiples of 512 included), an upload of S to a server that does  *)
(* not have the file, followed by a download of the same name into a clean *)
(* directory, ends with both client runs exiting 0 and the downloaded file *)
(* equal to S.                                                             *)
(***************************************************************************)
C1_RoundTrip ==
    ( /\ runs = 2
      /\ cli.pc = "idle"
      /\ hist[1].op = TFTP_WRQ /\ hist[1].srvIdle /\ ~hist[1].srvFile.exists
      /\ hist[2].op = TFTP_RRQ /\ hist[2].srvIdle /\ hist[2].clean )
    => /\ hist[1].exit = EXIT_SUCCESS
       /\ hist[2].exit = EXIT_SUCCESS
       /\ cfile = src

(***************************************************************************)
(* C2: a client process exits 0 only if its transfer completed: the final  *)
(* short DATA block was acknowledged (upload), a short DATA block was      *)
(* received and acknowledged (download), the server acknowledged the       *)
(* deletion (delete).                                                      *)
(***************************************************************************)
C2_ExitZeroOnlyIfCompleted ==
    \A i \in 1..Len(hist) :
        hist[i].exit = EXIT_SUCCESS => hist[i].res = "complete"

(***************************************************************************)
(* C3: when a receive loop has ended in failure, the file that was being   *)
(* written does not exist once the handler has returned (server upload     *)
(* handler, client download handler).                                      *)
(***************************************************************************)
C3_FailedReceiveLeavesNoFile ==
    /\ (srv.pc = "wait" /\ sres.op = TFTP_WRQ /\ sres.res = "failed")
            => ~fs_get(sfs, FileName).exists
    /\ (runs >= 1 /\ cli.pc = "idle" /\ hist[runs].op = TFTP_RRQ
            /\ hist[runs].valid /\ hist[runs].res = "failed")
            => ~cfile.exists

\* the datagram `who` sent last
LastSentBy(who) ==
    LET sent == SelectSeq(log, LAMBDA v : v.ev = "snd" /\ v.by = who)
    IN  sent[Len(sent)].data

(***************************************************************************)
(* C4: a receive timeout while a sender waits for ACK(b) is one retry      *)
(* against block b: below three retries the sender stays in the transfer,  *)
(* counts the retry and retransmits DATA(b) with the same payload.         *)
(***************************************************************************)
C4_TimeoutIsRetry ==
    [][ \A who \in {"c", "s"} :
            ( /\ Endpoint(who).pc = "send"
              /\ TimedOut(who)
              /\ Endpoint(who).retry + 1 < TFTP_MAX_RETRIES )
            => /\ EndpointNext(who).pc = "send"
               /\ EndpointNext(who).retry = Endpoint(who).retry + 1
               /\ EndpointNext(who).block_number = Endpoint(who).block_number
               /\ \E i \in 1..Len(SentInStep(who)) :
                    SentInStep(who)[i].data = LastSentBy(who) ]_vars

(***************************************************************************)
(* C5: a receiver that expects block b and receives DATA with an older     *)
(* block number answers with the ACK of that older block and goes on       *)
(* expecting b.                                                            *)
(***************************************************************************)
C5_OldBlockIsReAcked ==
    [][ \A who \in {"c", "s"} : \A old \in 1..(MaxBlocks + 2) :
            ( /\ Endpoint(who).pc = "recv"
              /\ old < Endpoint(who).block_number
              /\ Len(log') > Len(log)
              /\ log'[Len(log) + 1].ev = "rcv"
              /\ log'[Len(log) + 1].by = who
              /\ IsData(log'[Len(log) + 1].data, old)
              /\ Endpoint(who).retry + 1 < TFTP_MAX_RETRIES )
            => /\ EndpointNext(who).block_number = Endpoint(who).block_number
               /\ \E i \in 1..Len(SentInStep(who)) :
                    IsAck(SentInStep(who)[i].data, old) ]_vars

\* the client has exited and the server is back in its dispatcher
Settled == cli.pc = "idle" /\ srv.pc = "wait" /\ toS = <<>>

(***************************************************************************)
(* C6: on a loss-free channel the transfer of an empty file puts exactly   *)
(* one DATA block, with a zero-length payload, on the wire; the block is   *)
(* acknowledged once and both sides end the transfer with success.         *)
(***************************************************************************)
C6_EmptyFile ==
    /\ ( RunOver(TFTP_WRQ) /\ Settled /\ ~hist[runs].srvFile.exists /\ src.data = <<>> )
        => /\ DataSentBy("c") = <<[ev |-> "snd", by |-> "c", data |-> DataPacket(1, <<>>)]>>
           /\ AcksSentBy("s") = <<[ev |-> "snd", by |-> "s", data |-> AckPacket(0)],
                                  [ev |-> "snd", by |-> "s", data |-> AckPacket(1)]>>
           /\ hist[runs].exit = EXIT_SUCCESS
           /\ sres.op = TFTP_WRQ /\ sres.res = "complete"
    /\ ( RunOver(TFTP_RRQ) /\ Settled /\ hist[runs].srvFile = File(<<>>) )
        => /\ DataSentBy("s") = <<[ev |-> "snd", by |-> "s", data |-> DataPacket(1, <<>>)]>>
           /\ AcksSentBy("c") = <<[ev |-> "snd", by |-> "c", data |-> AckPacket(1)]>>
           /\ hist[runs].exit = EXIT_SUCCESS
           /\ sres.op = TFTP_RRQ /\ sres.res = "complete"

(***************************************************************************)
(* C7: on a loss-free channel, for a file whose size is a non-zero         *)
(* multiple of 512 the uploader sends, after the last full block is        *)
(* acknowledged, one more DATA block with a zero-length payload: n/512     *)
(* full blocks and one empty block in all (two for a 512-byte file).       *)
(***************************************************************************)
C7_FinalEmptyBlock ==
    ( /\ RunOver(TFTP_WRQ) /\ Settled
      /\ ~hist[runs].srvFile.exists
      /\ Len(src.data) > 0
      /\ Len(src.data) % TFTP_MAX_DATA_SIZE = 0 )
    => /\ Len(DataSentBy("c")) = Len(src.data) \div TFTP_MAX_DATA_SIZE + 1
       /\ Payload(DataSentBy("c")[Len(DataSentBy("c"))].data) = <<>>
       /\ Wire = ExpectedUploadWire(src.data)

\* an upload of a file whose last block is short and non-empty has ended
UploadShortTail ==
    /\ RunOver(TFTP_WRQ)
    /\ ~hist[runs].srvFile.exists
    /\ Len(src.data) % TFTP_MAX_DATA_SIZE /= 0

(***************************************************************************)
(* C8: on a loss-free channel an upload of n bytes, n not a multiple of    *)
(* 512, to a server that does not have the file puts on the wire WRQ,      *)
(* ACK(0), then DATA(k), ACK(k) for k = 1 .. ceil(n/512), the blocks       *)
(* carrying the file's bytes in order and the last one short; the client   *)
(* exits 0 and the server ends its transfer complete with the file stored. *)
(***************************************************************************)
C8_UploadExchange ==
    UploadShortTail =>
        /\ Wire = ExpectedUploadWire(src.data)
        /\ hist[runs].exit = EXIT_SUCCESS
        /\ hist[runs].res = "complete"
        /\ srv.pc = "wait"
        /\ sres.op = TFTP_WRQ /\ sres.res = "complete"
        /\ fs_get(sfs, FileName) = src

C8_Witness ==
    /\ UploadShortTail
    /\ Len(src.data) = TFTP_MAX_DATA_SIZE + 1
    /\ Len(DataSentBy("c")) = 2
    /\ hist[runs].exit = EXIT_SUCCESS

(***************************************************************************)
(* C9: a send or receive loop ends only when a short DATA block was        *)
(* exchanged and acknowledged, or an ERROR packet was observed or emitted, *)
(* or the retry counter reached 3.                                         *)
(***************************************************************************)
C9_LoopEndsOnlyOnThree ==
    /\ ( runs >= 1 /\ cli.pc = "idle" /\ hist[runs].looped )
        => \/ hist[runs].res = "complete"
           \/ ErrorSeenBy("c")
           \/ hist[runs].retry >= TFTP_MAX_RETRIES
    /\ ( srv.pc = "wait" /\ sres.op \in {TFTP_RRQ, TFTP_WRQ} /\ sres.res /= "none" )
        => \/ sres.res = "complete"
           \/ ErrorSeenBy("s")
           \/ sres.retry >= TFTP_MAX_RETRIES

(***************************************************************************)
(* C10: a sender that has transmitted DATA(b) advances its block number    *)
(* only on a received ACK whose block field equals b.                      *)
(***************************************************************************)
C10_AdvanceOnlyOnMatchingAck ==
    [][ \A who \in {"c", "s"} :
            ( /\ Endpoint(who).pc = "send"
              /\ BlockAfter(who) /= Endpoint(who).block_number )
            => Received(who, AckPacket(Endpoint(who).block_number)) ]_vars

\* the step taken is a step of `who` that received a datagram whose block
\* field is b
ReceivedBlock(who, b) ==
    /\ Len(log') > Len(log)
    /\ log'[Len(log) + 1].ev = "rcv"
    /\ log'[Len(log) + 1].by = who
    /\ Len(log'[Len(log) + 1].data) >= TFTP_DATA_HEADER_SIZE
    /\ Block(log'[Len(log) + 1].data) = b

(***************************************************************************)
(* C11: within one transfer, on the sending and on the receiving side, the *)
(* block number changes only by +1 and only in a step that received a      *)
(* packet carrying the current block number; it never decreases; and every *)
(* DATA datagram sent in a step that did not advance the block number (a   *)
(* retransmission) carries the block number of the transmission it repeats.*)
(***************************************************************************)
C11_BlockNumberDiscipline ==
    [][ \A who \in {"c", "s"} :
            Endpoint(who).pc \in {"send", "recv"}
            => /\ BlockAfter(who) \in { Endpoint(who).block_number,
                                        Endpoint(who).block_number + 1 }
               /\ BlockAfter(who) = Endpoint(who).block_number + 1
                    => ReceivedBlock(who, Endpoint(who).block_number)
               /\ \A i \in 1..Len(SentInStep(who)) :
                    Opcode(SentInStep(who)[i].data) = TFTP_DATA
                    => Block(SentInStep(who)[i].data) = BlockAfter(who) ]_vars

\* a sender that retransmitted DATA(1) and has since advanced to block 2
C11_Witness ==
    /\ srv.pc = "send"
    /\ srv.block_number = 2
    /\ Len(SelectSeq(DataSentBy("s"), LAMBDA v : Block(v.data) = 1)) >= 2

\* the file a receiving `who` writes to, before and after the step taken
Sink(who) == IF who = "c" THEN cfile ELSE fs_get(sfs, srv.filename)
SinkNext(who) == IF who = "c" THEN cfile' ELSE fs_get(sfs', srv.filename)

(***************************************************************************)
(* C12: every DATA datagram a client or the server sends carries at most   *)
(* 512 payload bytes, and the step in which a receiver takes one datagram  *)
(* (of whatever size) appends at most 512 bytes to the file it writes.     *)
(***************************************************************************)
C12_AtMost512 ==
    [][ \A who \in {"c", "s"} :
            /\ \A i \in 1..Len(SentInStep(who)) :
                    Opcode(SentInStep(who)[i].data) = TFTP_DATA
                    => Len(Payload(SentInStep(who)[i].data)) <= TFTP_MAX_DATA_SIZE
            /\ ( Endpoint(who).pc = "recv" /\ SinkNext(who).exists )
                    => Len(SinkNext(who).data)
                         <= Len(Sink(who).data) + TFTP_MAX_DATA_SIZE ]_vars

\* a receiver has taken a datagram with more than 512 payload bytes and
\* written a full block of it, and a sender has sent a full block
C12_Witness ==
    /\ \E i \in 1..Len(log) :
            /\ log[i].ev = "rcv" /\ log[i].by = "c"
            /\ Opcode(log[i].data) = TFTP_DATA
            /\ Len(Payload(log[i].data)) > TFTP_MAX_DATA_SIZE
    /\ cfile.exists
    /\ Len(cfile.data) >= TFTP_MAX_DATA_SIZE
    /\ \E i \in 1..Len(log) :
            /\ log[i].ev = "snd" /\ log[i].by = "s"
            /\ Opcode(log[i].data) = TFTP_DATA
            /\ Len(Payload(log[i].data)) = TFTP_MAX_DATA_SIZE

\* the retry counter of `who` when the step taken is over: that of the
\* handler still running, or the one its transfer ended with
RetryAfter(who) ==
    IF EndpointNext(who).pc \in {"send", "recv"}
    THEN EndpointNext(who).retry
    ELSE IF who = "c" THEN hist'[runs].retry ELSE sres'.retry

(***************************************************************************)
(* C13: in every reachable state, in the send and receive loops of the     *)
(* client and of the server, the retry counter is at most 3, and the step  *)
(* in which it reaches 3 ends the transfer with failure (the client exits  *)
(* non-zero; the server is back in its dispatcher, the file of an upload   *)
(* removed) and transmits no datagram.                                     *)
(***************************************************************************)
C13_RetryAtMostThree ==
    [][ \A who \in {"c", "s"} :
            Endpoint(who).pc \in {"send", "recv"}
            => /\ Endpoint(who).retry < TFTP_MAX_RETRIES
               /\ RetryAfter(who) <= TFTP_MAX_RETRIES
               /\ RetryAfter(who) = TFTP_MAX_RETRIES
                    => /\ SentInStep(who) = <<>>
                       /\ EndpointNext(who).pc = IF who = "c" THEN "idle" ELSE "wait"
                       /\ who = "c" => hist'[runs].exit = EXIT_FAILURE
                       /\ ( who = "s" /\ Endpoint(who).pc = "recv" )
                            => ~SinkNext(who).exists ]_vars

\* an upload whose retry counter reached 3: the client has exited
C13_Witness ==
    /\ runs >= 1
    /\ cli.pc = "idle"
    /\ hist[runs].op = TFTP_WRQ
    /\ hist[runs].retry = TFTP_MAX_RETRIES
    /\ hist[runs].exit = EXIT_FAILURE

\* the step taken is a step of `who` that received an ERROR packet
ReceivedError(who) ==
    /\ Len(log') > Len(log)
    /\ log'[Len(log) + 1].ev = "rcv"
    /\ log'[Len(log) + 1].by = who
    /\ Opcode(log'[Len(log) + 1].data) = TFTP_ERROR

(***************************************************************************)
(* C14: a side that receives an ERROR packet during a handshake or a       *)
(* transfer ends the transfer in that step, with failure (the client exits *)
(* non-zero; the server is back in its dispatcher), and transmits nothing: *)
(* no retransmission, no ACK, no ERROR reply.                              *)
(***************************************************************************)
C14_ErrorIsTerminalFailure ==
    [][ \A who \in {"c", "s"} :
            ( /\ Endpoint(who).pc \in {"hs", "send", "recv"}
              /\ ReceivedError(who) )
            => /\ SentInStep(who) = <<>>
               /\ EndpointNext(who).pc = IF who = "c" THEN "idle" ELSE "wait"
               /\ who = "c" => hist'[runs].exit = EXIT_FAILURE ]_vars

(***************************************************************************)
(* C15: the server, waiting in its dispatcher, receives a WRQ naming a     *)
(* file that exists: it sends exactly one datagram, ERROR with code 6 (so  *)
(* no ACK(0)), leaves its files as they are, opens nothing, and is back in *)
(* the dispatcher's wait.                                                  *)
(***************************************************************************)
C15_UploadOfExistingFile ==
    [][ ( /\ srv.pc = "wait"
          /\ Received("s", RequestPacket(TFTP_WRQ, FileName, MODE))
          /\ fs_get(sfs, FileName).exists )
        => /\ Len(SentInStep("s")) = 1
           /\ SentInStep("s")[1].data = ErrorPacket(ERROR_FILE_EXISTS)
           /\ sfs' = sfs
           /\ srv'.pc = "wait"
           /\ srv'.filepath = "NULL"
           /\ srv'.rcvtimeo = 0 ]_vars

\* an upload of a name the server has was answered with ERROR code 6
C15_Witness ==
    /\ runs = 1
    /\ hist[1].op = TFTP_WRQ
    /\ hist[1].valid
    /\ hist[1].srvFile.exists
    /\ \E i \in 1..Len(log) :
            log[i] = [ev |-> "snd", by |-> "s", data |-> ErrorPacket(ERROR_FILE_EXISTS)]
    /\ fs_get(sfs, FileName) = hist[1].srvFile

(***************************************************************************)
(* C16: during and after a download of a name the server does not have,    *)
(* started on a loss-free channel while the server waits in its            *)
(* dispatcher: the server sends no DATA, the client has no local file of   *)
(* that name at any point of the run, and once the run is over the server  *)
(* has replied ERROR with code 1 and the client has exited non-zero.       *)
(***************************************************************************)
C16_DownloadOfMissingFile ==
    ( /\ runs = 1
      /\ hist[1].op = TFTP_RRQ
      /\ hist[1].valid
      /\ ~hist[1].srvFile.exists )
    => /\ DataSentBy("s") = <<>>
       /\ ~cfile.exists
       /\ cli.pc = "idle"
            => /\ hist[1].exit /= EXIT_SUCCESS
               /\ \E i \in 1..Len(log) :
                    log[i] = [ev |-> "snd", by |-> "s",
                              data |-> ErrorPacket(ERROR_FILE_NOT_FOUND)]

\* the step taken is a step of the server, waiting in its dispatcher, that
\* received a DRQ for FileName
ReceivedDelete ==
    /\ srv.pc = "wait"
    /\ Received("s", RequestPacket(TFTP_DRQ, FileName, MODE))

(***************************************************************************)
(* C17: the server handles a DRQ.  If the named file exists and remove     *)
(* succeeds, the file is gone and the one datagram sent is ACK(0).  If the *)
(* file does not exist, the one datagram sent is ERROR with code 1 and no  *)
(* file has changed.  If the file exists and remove fails, the one         *)
(* datagram sent is an ERROR with code 0 and no file has changed.  In the  *)
(* last two cases no ACK is sent.                                          *)
(***************************************************************************)
C17_Delete ==
    [][ ReceivedDelete
        => /\ Len(SentInStep("s")) = 1
           /\ srv'.pc = "wait"
           /\ ( fs_get(sfs, FileName).exists /\ wfails' = wfails )
                => /\ ~fs_get(sfs', FileName).exists
                   /\ SentInStep("s")[1].data = AckPacket(0)
           /\ ~fs_get(sfs, FileName).exists
                => /\ sfs' = sfs
                   /\ SentInStep("s")[1].data = ErrorPacket(ERROR_FILE_NOT_FOUND)
           /\ ( fs_get(sfs, FileName).exists /\ wfails' /= wfails )
                => /\ sfs' = sfs
                   /\ Opcode(SentInStep("s")[1].data) = TFTP_ERROR
                   /\ Block(SentInStep("s")[1].data) = ERROR_UNDEFINED ]_vars

\* a delete whose remove failed was answered with an ERROR, the file is
\* still there
C17_Witness ==
    /\ wfails = 1
    /\ sres.op = TFTP_DRQ
    /\ fs_get(sfs, FileName).exists
    /\ \E i \in 1..Len(log) :
            /\ log[i].ev = "snd" /\ log[i].by = "s"
            /\ Opcode(log[i].data) = TFTP_ERROR
            /\ Block(log[i].data) = ERROR_UNDEFINED

\* a string in lower case
ToLower(str) == [i \in 1..Len(str) |-> tolower(str[i])]

(***************************************************************************)
(* C18: the server, waiting in its dispatcher, receives a request datagram *)
(* of at least 4 bytes whose mode is not "octet" in any case, whatever its *)
(* opcode and filename: the one datagram it sends is an ERROR with code 0, *)
(* no handler runs, no file is created, opened, modified or deleted, and   *)
(* the server is back in the dispatcher's wait.                            *)
(***************************************************************************)
C18_UnsupportedMode ==
    [][ \A op \in ForeignOpcodes, name \in ForeignNames, mode \in ForeignModes :
            ( /\ srv.pc = "wait"
              /\ Received("s", RequestPacket(op, name, mode))
              /\ Len(RequestPacket(op, name, mode)) >= TFTP_DATA_HEADER_SIZE
              /\ ToLower(mode) /= MODE )
            => /\ Len(SentInStep("s")) = 1
               /\ Opcode(SentInStep("s")[1].data) = TFTP_ERROR
               /\ Block(SentInStep("s")[1].data) = ERROR_UNDEFINED
               /\ sfs' = sfs
               /\ sres' = sres
               /\ srv'.pc = "wait"
               /\ srv'.filepath = "NULL"
               /\ srv'.rcvtimeo = 0 ]_vars

\* a delete request in mode "netascii" for a file the server has was
\* answered with ERROR code 0, and the file is still there
C18_Witness ==
    /\ Len(log) >= 2
    /\ log[Len(log) - 1] = [ev |-> "rcv", by |-> "s",
                            data |-> RequestPacket(TFTP_DRQ, FileName, ModeNetascii)]
    /\ log[Len(log)].ev = "snd"
    /\ Opcode(log[Len(log)].data) = TFTP_ERROR
    /\ Block(log[Len(log)].data) = ERROR_UNDEFINED
    /\ fs_get(sfs, FileName).exists

\* the arguments of run h are among those validate_arguments must refuse
BadArguments(h) ==
    \/ h.cmd.argc /= TFTP_NUM_ARGUMENTS
    \/ h.cmd.operation \notin {"upload", "download", "delete"}
    \/ h.cmd.pathlen > MAX_FILE_NAME
    \/ h.cmd.operation = "upload" /\ (~h.source \/ ~h.cmd.readable)
    \/ h.cmd.operation = "download" /\ h.target

(***************************************************************************)
(* C19: a client started with a wrong argument count, an unknown           *)
(* operation, a path longer than 256 bytes, an upload source that is       *)
(* missing or unreadable, or a download target already present, sends no   *)
(* datagram, leaves the local files as they are and exits non-zero.        *)
(***************************************************************************)
C19_BadArguments ==
    [][ ( runs' = runs + 1 /\ BadArguments(hist'[runs']) )
        => /\ log' = <<>>
           /\ toS' = toS
           /\ cfile' = IF hist'[runs'].clean THEN NoFile ELSE cfile
           /\ ( hist'[runs'].cmd.operation = "upload" /\ hist'[runs'].source )
                => src'.exists
           /\ cli'.pc = "idle"
           /\ hist'[runs'].exit = EXIT_FAILURE ]_vars

\* a download was refused because its target, downloaded by the run
\* before, is present
C19_Witness ==
    /\ runs = 2
    /\ hist[1].cmd.operation = "download"
    /\ hist[1].exit = EXIT_SUCCESS
    /\ hist[2].cmd.operation = "download"
    /\ hist[2].target
    /\ hist[2].exit = EXIT_FAILURE
    /\ cfile.exists
    /\ log = <<>>

\* the step taken is a step of the receiver `who` in which fwrite failed
WriteFailed(who) ==
    /\ Endpoint(who).pc = "recv"
    /\ wfails' = wfails + 1
    /\ Len(log') > Len(log)
    /\ log'[Len(log) + 1].ev = "rcv"
    /\ log'[Len(log) + 1].by = who

(***************************************************************************)
(* C20: when the write of a received payload fails, the receiver sends an  *)
(* ERROR packet carrying the code mapped from errno (3 disk full, 2 access *)
(* violation, 0 otherwise), its transfer is over, and the partial file is  *)
(* removed.                                                                *)
(***************************************************************************)
C20_WriteFailure ==
    [][ \A who \in {"c", "s"} :
            WriteFailed(who)
            => /\ \E i \in 1..Len(SentInStep(who)) :
                    /\ Opcode(SentInStep(who)[i].data) = TFTP_ERROR
                    /\ Block(SentInStep(who)[i].data)
                            \in {ERROR_DISK_FULL, ERROR_ACCESS_VIOLATION, ERROR_UNDEFINED}
               /\ EndpointNext(who).pc = IF who = "c" THEN "idle" ELSE "wait"
               /\ ~SinkNext(who).exists ]_vars

\* `who` is in a transfer whose peer has been heard from: the server in
\* either loop, the client in its send loop or past the first block of a
\* download
PeerKnown(who) ==
    \/ Endpoint(who).pc = "send"
    \/ Endpoint(who).pc = "recv" /\ (who = "s" \/ Endpoint(who).block_number > 1)

(***************************************************************************)
(* C21: once a transfer has started, the address its DATA, ACK and ERROR   *)
(* datagrams are sent to stays the address of the peer that started it: a  *)
(* step in which the client or the server receives a datagram, from        *)
(* whatever source, and stays in the transfer leaves the peer address      *)
(* unchanged.                                                              *)
(***************************************************************************)
C21_PeerAddressFixed ==
    [][ \A who \in {"c", "s"} :
            ( /\ PeerKnown(who)
              /\ EndpointNext(who).pc \in {"send", "recv"}
              /\ runs' = runs )
            => EndpointNext(who).addr = Endpoint(who).addr ]_vars

(***************************************************************************)
(* C22: whatever datagram the server received and whatever its peer then   *)
(* does (nothing at all, or bad packets only), a server that is inside a   *)
(* handler is eventually back in the dispatcher's blocking wait: no        *)
(* handler blocks forever.                                                 *)
(***************************************************************************)
C22_ServerReturns == (srv.pc /= "wait") ~> (srv.pc = "wait")

\* a handler whose peer went silent has returned after a receive timeout
C22_Witness ==
    /\ srv.pc = "wait"
    /\ sres.op \in {TFTP_RRQ, TFTP_WRQ}
    /\ sres.res = "failed"
    /\ Len(log) >= 1
    /\ log[Len(log)] = [ev |-> "tmo", by |-> "s", data |-> <<>>]

\* the step taken is a step of `who` that received a datagram, and the
\* datagram it received
ReceivedAny(who) ==
    /\ Len(log') > Len(log)
    /\ log'[Len(log) + 1].ev = "rcv"
    /\ log'[Len(log) + 1].by = who
Taken == log'[Len(log) + 1].data

(***************************************************************************)
(* C23: a receiver that takes a DATA packet whose block number differs     *)
(* from the one it expects leaves the file it writes as it is (the payload *)
(* is not appended) and goes on expecting the same block.                  *)
(***************************************************************************)
C23_UnexpectedDataLeavesSink ==
    [][ \A who \in {"c", "s"} :
            ( /\ Endpoint(who).pc = "recv"
              /\ ReceivedAny(who)
              /\ Len(Taken) >= TFTP_DATA_HEADER_SIZE
              /\ Opcode(Taken) = TFTP_DATA
              /\ Block(Taken) /= Endpoint(who).block_number )
            => /\ SinkNext(who).exists => SinkNext(who).data = Sink(who).data
               /\ BlockAfter(who) = Endpoint(who).block_number ]_vars

\* the DATA datagrams `who` sent in the step taken, a step that started
\* with the return of a receive of `who`
DataSentInStep(who) ==
    SelectSeq(SentInStep(who), LAMBDA v : Opcode(v.data) = TFTP_DATA)
StepOf(who) ==
    /\ Len(log') > Len(log)
    /\ log'[Len(log) + 1].ev \in {"rcv", "tmo"}
    /\ log'[Len(log) + 1].by = who

(***************************************************************************)
(* C24: between two consecutive receive calls a sender transmits exactly   *)
(* one DATA datagram, on every path, the retransmission after a bad ACK    *)
(* included: a step that leaves the sender waiting for a reply has sent    *)
(* one DATA datagram, and no step sends more than one.                     *)
(***************************************************************************)
C24_OneDataPerReceive ==
    [][ \A who \in {"c", "s"} :
            StepOf(who)
            => /\ Len(DataSentInStep(who)) <= 1
               /\ EndpointNext(who).pc = "send" => Len(DataSentInStep(who)) = 1 ]_vars

(***************************************************************************)
(* C25: a sender waiting for the ACK of block b that receives a datagram   *)
(* that is not an ACK (a DATA packet with block b, a request, ...) does    *)
(* not advance and does not end with success; its retry counter goes up by *)
(* one and, while that is below 3, it stays in the transfer and            *)
(* retransmits DATA(b).                                                    *)
(***************************************************************************)
C25_NonAckAtSender ==
    [][ \A who \in {"c", "s"} :
            ( /\ Endpoint(who).pc = "send"
              /\ ReceivedAny(who)
              /\ Opcode(Taken) /= TFTP_ACK )
            => /\ BlockAfter(who) = Endpoint(who).block_number
               /\ RetryAfter(who) = Endpoint(who).retry + 1
               /\ ( who = "c" /\ cli'.pc = "idle" ) => hist'[runs].exit = EXIT_FAILURE
               /\ Endpoint(who).retry + 1 < TFTP_MAX_RETRIES
                    => /\ EndpointNext(who).pc = "send"
                       /\ \E i \in 1..Len(SentInStep(who)) :
                            IsData(SentInStep(who)[i].data, Endpoint(who).block_number) ]_vars

(***************************************************************************)
(* C26: a receiver expecting block b that receives a packet that is        *)
(* neither DATA nor ERROR (an ACK, a request, an unknown opcode) re-sends   *)
(* ACK(b - 1), counts one retry, writes nothing to its file and, while the *)
(* retry counter is below 3, stays in the transfer.                        *)
(***************************************************************************)
C26_NonDataAtReceiver ==
    [][ \A who \in {"c", "s"} :
            ( /\ Endpoint(who).pc = "recv"
              /\ ReceivedAny(who)
              /\ Opcode(Taken) \notin {TFTP_DATA, TFTP_ERROR} )
            => /\ \E i \in 1..Len(SentInStep(who)) :
                    IsAck(SentInStep(who)[i].data, Endpoint(who).block_number - 1)
               /\ RetryAfter(who) = Endpoint(who).retry + 1
               /\ SinkNext(who).exists => SinkNext(who).data = Sink(who).data
               /\ Endpoint(who).retry + 1 < TFTP_MAX_RETRIES
                    => EndpointNext(who).pc = "recv" ]_vars

(***************************************************************************)
(* C27: the client gets past its handshake only on an ACK packet with      *)
(* block number 0: an upload sends DATA(1), and a delete exits 0, only in  *)
(* a step that received ACK(0).                                            *)
(***************************************************************************)
C27_HandshakeNeedsAckZero ==
    [][ ( /\ cli.pc = "hs"
          /\ StepOf("c")
          /\ \/ DataSentInStep("c") /= <<>>
             \/ cli'.pc = "idle" /\ hist'[runs].exit = EXIT_SUCCESS )
        => Received("c", AckPacket(0)) ]_vars

\* the file a sending `who` reads, after the step taken
SourceNext(who) == IF who = "c" THEN src' ELSE fs_get(sfs', srv'.filename)

(***************************************************************************)
(* C28: every DATA(b) datagram a sender transmits, first transmission or   *)
(* retransmission, carries exactly the bytes of block b of the file it     *)
(* sends, and a sender that waits for the ACK of block b has read the file *)
(* up to the end of block b.                                               *)
(***************************************************************************)
C28_DataCarriesSourceBlock ==
    [][ \A who \in {"c", "s"} :
            StepOf(who)
            => /\ \A i \in 1..Len(DataSentInStep(who)) :
                    Payload(DataSentInStep(who)[i].data)
                        = BlockOf(SourceNext(who).data,
                                  Block(DataSentInStep(who)[i].data))
               /\ EndpointNext(who).pc = "send"
                    => EndpointNext(who).pos
                         = Min(TFTP_MAX_DATA_SIZE * EndpointNext(who).block_number,
                               Len(SourceNext(who).data)) ]_vars

(***************************************************************************)
(* C29: a receiver sends ACK(b) for the expected DATA(b) only when the     *)
(* payload has been appended to its file: whenever ACK(b) goes out, the    *)
(* file is the file before the step followed by the payload (never the     *)
(* file of a failed or missing write).                                     *)
(***************************************************************************)
C29_AckOnlyAfterWrite ==
    [][ \A who \in {"c", "s"} :
            ( /\ Endpoint(who).pc = "recv"
              /\ ReceivedAny(who)
              /\ IsData(Taken, Endpoint(who).block_number)
              /\ \E i \in 1..Len(SentInStep(who)) :
                    IsAck(SentInStep(who)[i].data, Endpoint(who).block_number) )
            => SinkNext(who)
                 = File(Sink(who).data
                        \o SubSeq(Payload(Taken), 1,
                                  Min(TFTP_MAX_DATA_SIZE, Len(Payload(Taken))))) ]_vars

\* the step taken is a step of the server, waiting in its dispatcher, that
\* received a WRQ in mode "octet" for FileName, a file it does not have
ReceivedUpload ==
    /\ srv.pc = "wait"
    /\ Received("s", RequestPacket(TFTP_WRQ, FileName, MODE))
    /\ ~fs_get(sfs, FileName).exists

(***************************************************************************)
(* C30: the server handles a WRQ for a file it does not have.  If the file *)
(* is opened, the one datagram sent is ACK(0), the file exists, empty and  *)
(* open for writing, and the server waits in its receive loop for block 1. *)
(* If the open fails, the one datagram sent is an ERROR packet (so no      *)
(* ACK(0)), no receive loop runs (the server is back in its dispatcher)    *)
(* and no file has been created.                                           *)
(***************************************************************************)
C30_AckZeroAfterOpen ==
    [][ ReceivedUpload
        => /\ Len(SentInStep("s")) = 1
           /\ wfails' = wfails
                => /\ SentInStep("s")[1].data = AckPacket(0)
                   /\ fs_get(sfs', FileName) = File(<<>>)
                   /\ srv'.filepath = "wb"
                   /\ srv'.pc = "recv"
                   /\ srv'.block_number = 1
           /\ wfails' /= wfails
                => /\ Opcode(SentInStep("s")[1].data) = TFTP_ERROR
                   /\ sfs' = sfs
                   /\ srv'.pc = "wait"
                   /\ srv'.filepath = "NULL" ]_vars

\* an upload whose fopen failed on the server was answered with an ERROR
\* packet and nothing else, and the server has no such file
C30_Witness ==
    /\ wfails = 1
    /\ srv.pc = "wait"
    /\ sres.op = TFTP_WRQ
    /\ ~fs_get(sfs, FileName).exists
    /\ Len(log) >= 2
    /\ log[Len(log) - 1] = [ev |-> "rcv", by |-> "s",
                            data |-> RequestPacket(TFTP_WRQ, FileName, MODE)]
    /\ log[Len(log)].ev = "snd"
    /\ Opcode(log[Len(log)].data) = TFTP_ERROR

(***************************************************************************)
(* C31: the server, waiting in its dispatcher, receives a RRQ.  If the     *)
(* file is missing, the one datagram sent is ERROR with code 1; if it      *)
(* exists but may not be read, the one datagram sent is ERROR with code 2; *)
(* in both cases no DATA is sent and the server is back in its dispatcher. *)
(* Otherwise nothing but DATA is sent, the first DATA datagram has block   *)
(* number 1 and carries the first block of the file.                       *)
(***************************************************************************)
C31_FirstDataOfDownload ==
    [][ \A mode \in {MODE, ModeUpper} :
            ( /\ srv.pc = "wait"
              /\ Received("s", RequestPacket(TFTP_RRQ, FileName, mode)) )
            => /\ ~fs_get(sfs, FileName).exists
                    => /\ Len(SentInStep("s")) = 1
                       /\ SentInStep("s")[1].data = ErrorPacket(ERROR_FILE_NOT_FOUND)
                       /\ srv'.pc = "wait"
               /\ ( fs_get(sfs, FileName).exists /\ wfails' /= wfails )
                    => /\ Len(SentInStep("s")) = 1
                       /\ SentInStep("s")[1].data = ErrorPacket(ERROR_ACCESS_VIOLATION)
                       /\ srv'.pc = "wait"
               /\ ( fs_get(sfs, FileName).exists /\ wfails' = wfails )
                    => /\ DataSentInStep("s") = SentInStep("s")
                       /\ Len(SentInStep("s")) >= 1
                            => SentInStep("s")[1].data
                                 = DataPacket(1, BlockOf(fs_get(sfs, FileName).data, 1)) ]_vars

\* a RRQ for a file that may not be read was answered with ERROR code 2 and
\* nothing else
C31_Witness ==
    /\ wfails = 1
    /\ srv.pc = "wait"
    /\ Len(log) >= 2
    /\ log[Len(log) - 1] = [ev |-> "rcv", by |-> "s",
                            data |-> RequestPacket(TFTP_RRQ, FileName, MODE)]
    /\ log[Len(log)] = [ev |-> "snd", by |-> "s",
                        data |-> ErrorPacket(ERROR_ACCESS_VIOLATION)]

(***************************************************************************)
(* C32: whenever the server is blocked in the receive of its dispatcher    *)
(* the receive timeout of its socket is off, and whenever it is blocked in *)
(* a receive inside a transfer the timeout is on.                          *)
(***************************************************************************)
C32_TimeoutAroundHandlers ==
    /\ srv.pc = "wait" => srv.rcvtimeo = 0
    /\ srv.pc \in {"send", "recv"} => srv.rcvtimeo > 0

C34_IllegalOperation ==
    [][ \A op \in ForeignOpcodes \ {TFTP_RRQ, TFTP_WRQ, TFTP_DRQ},
           name \in ForeignNames, mode \in ForeignModes :
            ( /\ srv.pc = "wait"
              /\ Received("s", RequestPacket(op, name, mode))
              /\ Len(RequestPacket(op, name, mode)) >= TFTP_DATA_HEADER_SIZE )
            => /\ Len(SentInStep("s")) = 1
               /\ Opcode(SentInStep("s")[1].data) = TFTP_ERROR
               /\ Block(SentInStep("s")[1].data) = ERROR_ILLEGAL_OPERATION
               /\ sfs' = sfs
               /\ sres' = sres
               /\ srv'.pc = "wait" ]_vars

(***************************************************************************)
(* C35: a client run puts its request datagram (RRQ, WRQ or DRQ) on the    *)
(* wire exactly once.  When the client's receive times out before any      *)
(* datagram has reached it, the client sends nothing more and its process  *)
(* exits with failure.                                                     *)
(***************************************************************************)
C35_RequestSentOnce ==
    [][ /\ ( runs' >= 1 /\ hist'[runs'].valid )
            => Len(SelectSeq(log', LAMBDA v :
                        /\ v.ev = "snd" /\ v.by = "c"
                        /\ Opcode(v.data) \in {TFTP_RRQ, TFTP_WRQ, TFTP_DRQ})) = 1
        /\ ( /\ TimedOut("c")
             /\ \A i \in 1..Len(log) : ~(log[i].ev = "rcv" /\ log[i].by = "c") )
            => /\ SentInStep("c") = <<>>
               /\ cli'.pc = "idle"
               /\ hist'[runs].exit = EXIT_FAILURE ]_vars

\* an upload whose WRQ was lost: the client's first receive timed out and
\* the process has exited with failure, with the WRQ sent once
C35_Witness ==
    /\ RunOver(TFTP_WRQ)
    /\ hist[runs].exit = EXIT_FAILURE
    /\ log = <<[ev |-> "snd", by |-> "c", data |-> RequestPacket(TFTP_WRQ, FileName, MODE)],
               [ev |-> "tmo", by |-> "c", data |-> <<>>]>>

(***************************************************************************)
(* C36: past block 65535 the block number goes on as a 16-bit value.  A    *)
(* receiver that has taken 65535 blocks accepts the DATA datagram whose    *)
(* block bytes are its block number modulo 65536 (0 for the block after    *)
(* 65535): it appends the payload and counts no retry.  A sender accepts   *)
(* the ACK whose block bytes are its block number modulo 65536: it counts  *)
(* no retry and goes on to the next block.                                 *)
(***************************************************************************)
C36_BlockNumberWraps ==
    [][ \A who \in {"c", "s"} :
            ( /\ Endpoint(who).block_number > 65535
              /\ ReceivedAny(who)
              /\ Len(Taken) >= TFTP_DATA_HEADER_SIZE
              /\ Block(Taken) = Endpoint(who).block_number % 65536 )
            => /\ ( Endpoint(who).pc = "recv" /\ Opcode(Taken) = TFTP_DATA )
                    => /\ SinkNext(who).data = Sink(who).data \o Payload(Taken)
                       /\ RetryAfter(who) = 0
               /\ ( Endpoint(who).pc = "send" /\ Opcode(Taken) = TFTP_ACK )
                    => /\ RetryAfter(who) = 0
                       /\ BlockAfter(who) = Endpoint(who).block_number + 1 ]_vars

(***************************************************************************)
(* C37: when datagrams are only lost or duplicated (no third host, no      *)
(* failing write), at every point of a receive loop the file written holds *)
(* the payloads of blocks 1 .. block_number - 1 of the file sent, in       *)
(* order and nothing else.  (Stated for the first run of a client, whose   *)
(* source file src is the file of the transfer.)                           *)
(***************************************************************************)
C37_SinkIsPrefixOfSource ==
    ( injected = 0 /\ wfails = 0 /\ runs = 1 )
    => \A who \in {"c", "s"} :
        Endpoint(who).pc = "recv"
        => Sink(who).data
             = SubSeq(IF who = "s" THEN src.data ELSE fs_get(sfs, FileName).data,
                      1,
                      Min(TFTP_MAX_DATA_SIZE * (Endpoint(who).block_number - 1),
                          Len(IF who = "s" THEN src.data
                                           ELSE fs_get(sfs, FileName).data)))

(***************************************************************************)
(* C38: when datagrams are only lost or duplicated (no third host, no      *)
(* failing write), every ACK(b) with b >= 1 that a process sends comes     *)
(* after a DATA datagram numbered b that this process has received.        *)
(***************************************************************************)
C38_AckOnlyForReceivedBlock ==
    ( injected = 0 /\ wfails = 0 )
    => \A i \in 1..Len(log) :
        ( /\ log[i].ev = "snd"
          /\ Opcode(log[i].data) = TFTP_ACK
          /\ Block(log[i].data) >= 1 )
        => \E j \in 1..(i - 1) :
            /\ log[j].ev = "rcv"
            /\ log[j].by = log[i].by
            /\ IsData(log[j].data, Block(log[i].data))

(***************************************************************************)
(* C39: the server, inside a transfer, receives a RRQ, WRQ or DRQ          *)
(* datagram: the transfer ends in this step and the server is back in its  *)
(* dispatcher, no retry is counted, nothing is sent, no other handler has  *)
(* run, and the transfer has failed: the file an upload was writing is     *)
(* gone, and the server's other files are as they were.                    *)
(***************************************************************************)
C39_RequestInsideTransfer ==
    [][ \A op \in {TFTP_RRQ, TFTP_WRQ, TFTP_DRQ} :
            ( /\ srv.pc \in {"send", "recv"}
              /\ Received("s", RequestPacket(op, FileName, MODE)) )
            => /\ srv'.pc = "wait"
               /\ RetryAfter("s") = srv.retry
               /\ SentInStep("s") = <<>>
               /\ sres'.op = srv.opcode
               /\ sres'.res = "failed"
               /\ srv.pc = "send" => sfs' = sfs
               /\ srv.pc = "recv" => ~fs_get(sfs', srv.filename).exists ]_vars

(***************************************************************************)
(* C40: when a client process whose handler ran has exited, with success   *)
(* or with failure, its socket was closed once, its file handle (an upload *)
(* and a download have one, a delete has none) was closed once and its     *)
(* filename was freed once; the cleanup that main calls after prog         *)
(* returned true releases nothing again.                                   *)
(***************************************************************************)
C40_CleanupOnce ==
    ( runs >= 1 /\ cli.pc = "idle" /\ hist[runs].valid )
    => hist[runs].released
         = IF hist[runs].op = TFTP_DRQ THEN <<"close", "free">>
                                       ELSE <<"close", "fclose", "free">>

\* an upload has completed and main, exiting with 0, has called cleanup a
\* second time
C40_Witness ==
    /\ RunOver(TFTP_WRQ)
    /\ hist[runs].exit = EXIT_SUCCESS
    /\ hist[runs].res = "complete"
    /\ hist[runs].released = <<"close", "fclose", "free">>

====
